---- MODULE Spec2Model ----
(***************************************************************************)
(* A model of the mapper-driven Serializer of src/lib/serializer.ts.       *)
(*                                                                         *)
(* JavaScript values are tagged records (field t is the tag).  Strings are *)
(* sequences of one-character strings, so that split, toLowerCase, length  *)
(* and the regular expressions are computed character by character.        *)
(* Objects are functions from keys (strings) to values; a key outside the  *)
(* domain reads as undefined, as in JavaScript.  A thrown Error is a value *)
(* with tag "error"; every caller propagates it, which is what throw does. *)
(***************************************************************************)
EXTENDS Integers, Sequences, FiniteSets, TLC

VARIABLES modelMappers, isXML, pc, argMapper, argObject, retPayload, argResponseBody,
          retInstance

vars == <<modelMappers, isXML, pc, argMapper, argObject, retPayload, argResponseBody,
          retInstance>>

-----------------------------------------------------------------------------
(* JavaScript values *)

Undefined == [t |-> "undefined"]
Null == [t |-> "null"]
NaN == [t |-> "nan"]
Bool(b) == [t |-> "boolean", v |-> b]
Num(n) == [t |-> "number", v |-> n]
Str(s) == [t |-> "string", v |-> s]
Arr(a) == [t |-> "array", v |-> a]
Obj(f) == [t |-> "object", v |-> f]
DateOf(ms) == [t |-> "date", v |-> ms]
Uint8Array(bytes) == [t |-> "uint8array", v |-> bytes]
RegExp(src) == [t |-> "regexp", src |-> src]
\* The text a Date formats to: fmt is the format, v the instant at the
\* precision the format keeps (days, milliseconds or seconds).
DateString(fmt, v) == [t |-> "datestring", fmt |-> fmt, v |-> v]

EmptyObject == [k \in {} |-> Undefined]

\* A thrown Error: kind is the class of the failure, objectName the name the
\* message carries, detail the constraint or the reason.
Err(kind, objectName, detail) ==
    [t |-> "error", kind |-> kind, objectName |-> objectName, detail |-> detail]

IsErr(x) == x.t = "error"

\* x == undefined (null or undefined)
IsAbsent(x) == x.t \in {"undefined", "null"}

\* typeof x
TypeOf(x) ==
    CASE x.t \in {"string", "datestring"} -> "string"
      [] x.t \in {"number", "nan"} -> "number"
      [] x.t = "boolean" -> "boolean"
      [] x.t = "undefined" -> "undefined"
      [] x.t = "function" -> "function"
      [] OTHER -> "object"

\* ToBoolean(x): the truthiness the conditions of the code test
Truthy(x) ==
    CASE x.t \in {"undefined", "null", "nan"} -> FALSE
      [] x.t = "boolean" -> x.v
      [] x.t = "number" -> x.v # 0
      [] x.t = "string" -> Len(x.v) > 0
      [] OTHER -> TRUE

\* o[k] for a non-absent o (o[k] of null or undefined throws a TypeError,
\* which each caller tests with IsAbsent first)
Get(o, k) ==
    IF o.t = "object" /\ k \in DOMAIN o.v THEN o.v[k] ELSE Undefined

\* o with o[k] = v done
Put(o, k, v) ==
    Obj([x \in (DOMAIN o.v) \cup {k} |-> IF x = k THEN v ELSE o.v[x]])

\* x.length
LengthOf(x) ==
    CASE x.t \in {"string", "array", "uint8array"} -> Num(Len(x.v))
      [] x.t = "datestring" ->
            Num(CASE x.fmt = "date" -> 10 [] x.fmt = "datetime" -> 24 [] OTHER -> 29)
      [] OTHER -> Undefined

\* ToNumber(x), as the relational operators and % apply it to an operand.
\* The strings of the model hold no digits: only the empty string is numeric.
ToNumber(x) ==
    CASE x.t = "number" -> x
      [] x.t = "boolean" -> Num(IF x.v THEN 1 ELSE 0)
      [] x.t = "null" -> Num(0)
      [] x.t = "string" -> IF Len(x.v) = 0 THEN Num(0) ELSE NaN
      [] x.t = "date" -> Num(x.v)
      [] x.t = "array" ->
            IF Len(x.v) = 0 THEN Num(0)
            ELSE IF Len(x.v) = 1 /\ x.v[1].t = "number" THEN x.v[1]
            ELSE IF Len(x.v) = 1 /\ (IsAbsent(x.v[1]) \/ x.v[1] = Str(<<>>)) THEN Num(0)
            ELSE NaN
      [] OTHER -> NaN

Abs(n) == IF n < 0 THEN -n ELSE n

LowerOf ==
    [c \in {"A", "B", "C", "D", "R"} |->
        CASE c = "A" -> "a" [] c = "B" -> "b" [] c = "C" -> "c"
          [] c = "D" -> "d" [] c = "R" -> "r"]

\* String.prototype.toLowerCase
toLowerCase(s) ==
    [i \in 1..Len(s) |-> IF s[i] \in DOMAIN LowerOf THEN LowerOf[s[i]] ELSE s[i]]

-----------------------------------------------------------------------------
(* Mappers *)

\* The type of a mapper: name is the tag; the other fields are those of the
\* Sequence, Dictionary, Enum and Composite variants, undefined when unset.
MapperType(name) ==
    [name |-> name, element |-> Undefined, value |-> Undefined,
     allowedValues |-> Undefined, className |-> Undefined,
     modelProperties |-> Undefined, uberParent |-> Undefined,
     polymorphicDiscriminator |-> Undefined]

\* A mapper with every optional field unset.
BaseMapper(serializedName, type) ==
    [t |-> "mapper", serializedName |-> serializedName, type |-> type,
     xmlName |-> Undefined, xmlIsAttribute |-> Undefined,
     xmlElementName |-> Undefined, xmlIsWrapped |-> Undefined,
     readOnly |-> Undefined, isConstant |-> Undefined,
     required |-> Undefined, nullable |-> Undefined,
     defaultValue |-> Undefined, constraints |-> Undefined,
     headerCollectionPrefix |-> Undefined]

\* modelProperties: the property mappers in the order Object.keys lists them
ModelProperties(props) == [t |-> "modelProperties", v |-> props]
Property(key, m) == [key |-> key, mapper |-> m]

\* The object form of a polymorphic discriminator
PolymorphicDiscriminator(serializedName, clientName) ==
    [t |-> "discriminator", serializedName |-> serializedName, clientName |-> clientName]

\* The model registry: the mappers by class name and the discriminator index
\* (the key "discriminators" of modelMappers), which a registry may lack.
Registry(classes, discriminators) ==
    [t |-> "registry", v |-> classes, discriminators |-> discriminators]

\* The constraints in the order validateConstraints tests them
ConstraintOrder ==
    <<"ExclusiveMaximum", "ExclusiveMinimum", "InclusiveMaximum", "InclusiveMinimum",
      "MaxItems", "MaxLength", "MinItems", "MinLength", "MultipleOf", "Pattern",
      "UniqueItems">>

ConstraintNames == {ConstraintOrder[i] : i \in 1..Len(ConstraintOrder)}

NoConstraints == [t |-> "constraints"] @@ [n \in ConstraintNames |-> Undefined]

-----------------------------------------------------------------------------
(* validateConstraints *)

\* a < b on numbers: false when an operand is NaN
NumLt(a, b) == a.t = "number" /\ b.t = "number" /\ a.v < b.v
NumLe(a, b) == a.t = "number" /\ b.t = "number" /\ a.v <= b.v

\* value % m !== 0
RemNonZero(value, m) ==
    LET a == ToNumber(value)
        b == ToNumber(m)
    IN  IF a.t # "number" \/ b.t # "number" \/ b.v = 0 THEN TRUE
        ELSE (Abs(a.v) % Abs(b.v)) # 0

\* str.match(re) !== null, for the regular expressions of the model:
\* /^a/ (the text starts with a) and /b$/ (it ends with b)
Matches(re, s) ==
    CASE re.src = "^a" -> Len(s) > 0 /\ s[1] = "a"
      [] re.src = "b$" -> Len(s) > 0 /\ s[Len(s)] = "b"
      [] OTHER -> FALSE

\* ar.indexOf(item): the first index holding item under ===, which no NaN
\* satisfies; 0 when there is none
IndexOf(ar, item) ==
    IF \E j \in 1..Len(ar) : ar[j] = item /\ item.t # "nan"
    THEN CHOOSE j \in 1..Len(ar) :
            /\ ar[j] = item
            /\ \A k \in 1..(j - 1) : ar[k] # item
    ELSE 0

\* value.some((item, i, ar) => ar.indexOf(item) !== i)
HasDuplicate(ar) == \E i \in 1..Len(ar) : IndexOf(ar, ar[i]) # i

\* The condition of each if of validateConstraints, c being the constraints
ExclusiveMaximumFails(c, value) ==
    ~IsAbsent(c.ExclusiveMaximum) /\ NumLe(ToNumber(c.ExclusiveMaximum), ToNumber(value))
ExclusiveMinimumFails(c, value) ==
    ~IsAbsent(c.ExclusiveMinimum) /\ NumLe(ToNumber(value), ToNumber(c.ExclusiveMinimum))
InclusiveMaximumFails(c, value) ==
    ~IsAbsent(c.InclusiveMaximum) /\ NumLt(ToNumber(c.InclusiveMaximum), ToNumber(value))
InclusiveMinimumFails(c, value) ==
    ~IsAbsent(c.InclusiveMinimum) /\ NumLt(ToNumber(value), ToNumber(c.InclusiveMinimum))
MaxItemsFails(c, value) ==
    ~IsAbsent(c.MaxItems) /\ NumLt(ToNumber(c.MaxItems), ToNumber(LengthOf(value)))
MaxLengthFails(c, value) ==
    ~IsAbsent(c.MaxLength) /\ NumLt(ToNumber(c.MaxLength), ToNumber(LengthOf(value)))
MinItemsFails(c, value) ==
    ~IsAbsent(c.MinItems) /\ NumLt(ToNumber(LengthOf(value)), ToNumber(c.MinItems))
MinLengthFails(c, value) ==
    ~IsAbsent(c.MinLength) /\ NumLt(ToNumber(LengthOf(value)), ToNumber(c.MinLength))
MultipleOfFails(c, value) ==
    ~IsAbsent(c.MultipleOf) /\ RemNonZero(value, c.MultipleOf)
\* value.match is a function of strings only: the call throws a TypeError on
\* any other value
PatternThrows(c, value) == Truthy(c.Pattern) /\ value.t # "string"
PatternFails(c, value) ==
    Truthy(c.Pattern) /\ value.t = "string" /\ ~Matches(c.Pattern, value.v)
\* value.some is a function of arrays only
UniqueItemsThrows(c, value) == Truthy(c.UniqueItems) /\ value.t # "array"
UniqueItemsFails(c, value) ==
    Truthy(c.UniqueItems) /\ value.t = "array" /\ HasDuplicate(value.v)

failValidation(objectName, constraintName) == Err("Constraint", objectName, constraintName)

TypeError(objectName) == Err("TypeError", objectName, "TypeError")

\* validateConstraints with the length checks ahead of the numeric ones
validateConstraintsLengthFirst(m, value, objectName) ==
    IF Truthy(m.constraints) /\ ~IsAbsent(value)
    THEN LET c == m.constraints
         IN  IF MaxItemsFails(c, value) THEN failValidation(objectName, "MaxItems")
             ELSE IF MaxLengthFails(c, value) THEN failValidation(objectName, "MaxLength")
             ELSE IF MinItemsFails(c, value) THEN failValidation(objectName, "MinItems")
             ELSE IF MinLengthFails(c, value) THEN failValidation(objectName, "MinLength")
             ELSE IF ExclusiveMaximumFails(c, value) THEN failValidation(objectName, "ExclusiveMaximum")
             ELSE IF ExclusiveMinimumFails(c, value) THEN failValidation(objectName, "ExclusiveMinimum")
             ELSE IF InclusiveMaximumFails(c, value) THEN failValidation(objectName, "InclusiveMaximum")
             ELSE IF InclusiveMinimumFails(c, value) THEN failValidation(objectName, "InclusiveMinimum")
             ELSE IF MultipleOfFails(c, value) THEN failValidation(objectName, "MultipleOf")
             ELSE IF PatternThrows(c, value) THEN TypeError(objectName)
             ELSE IF PatternFails(c, value) THEN failValidation(objectName, "Pattern")
             ELSE IF UniqueItemsThrows(c, value) THEN TypeError(objectName)
             ELSE IF UniqueItemsFails(c, value) THEN failValidation(objectName, "UniqueItems")
             ELSE Undefined
    ELSE Undefined

\* undefined when every constraint holds, the Error thrown otherwise
validateConstraints(m, value, objectName) ==
    IF Truthy(m.constraints) /\ ~IsAbsent(value)
    THEN LET c == m.constraints
         IN  IF ExclusiveMaximumFails(c, value) THEN failValidation(objectName, "ExclusiveMaximum")
             ELSE IF ExclusiveMinimumFails(c, value) THEN failValidation(objectName, "ExclusiveMinimum")
             ELSE IF InclusiveMaximumFails(c, value) THEN failValidation(objectName, "InclusiveMaximum")
             ELSE IF InclusiveMinimumFails(c, value) THEN failValidation(objectName, "InclusiveMinimum")
             ELSE IF MaxItemsFails(c, value) THEN failValidation(objectName, "MaxItems")
             ELSE IF MaxLengthFails(c, value) THEN failValidation(objectName, "MaxLength")
             ELSE IF MinItemsFails(c, value) THEN failValidation(objectName, "MinItems")
             ELSE IF MinLengthFails(c, value) THEN failValidation(objectName, "MinLength")
             ELSE IF MultipleOfFails(c, value) THEN failValidation(objectName, "MultipleOf")
             ELSE IF PatternThrows(c, value) THEN TypeError(objectName)
             ELSE IF PatternFails(c, value) THEN failValidation(objectName, "Pattern")
             ELSE IF UniqueItemsThrows(c, value) THEN TypeError(objectName)
             ELSE IF UniqueItemsFails(c, value) THEN failValidation(objectName, "UniqueItems")
             ELSE Undefined
    ELSE Undefined

-----------------------------------------------------------------------------
(* Strings and keys *)

DigitChars == <<"0", "1", "2", "3", "4", "5", "6", "7", "8", "9">>

RECURSIVE NumToChars(_)
\* String(n) for an integer n
NumToChars(n) ==
    IF n < 0 THEN <<"-">> \o NumToChars(-n)
    ELSE IF n < 10 THEN <<DigitChars[n + 1]>>
    ELSE NumToChars(n \div 10) \o <<DigitChars[(n % 10) + 1]>>

\* String(x), as string concatenation and a computed property key apply it
ToStringChars(x) ==
    CASE x.t = "string" -> x.v
      [] x.t = "number" -> NumToChars(x.v)
      [] x.t = "boolean" -> IF x.v THEN <<"t", "r", "u", "e">> ELSE <<"f", "a", "l", "s", "e">>
      [] x.t = "null" -> <<"n", "u", "l", "l">>
      [] x.t = "nan" -> <<"N", "a", "N">>
      [] OTHER -> <<"u", "n", "d", "e", "f", "i", "n", "e", "d">>

\* a + b on strings
Concat(a, b) == Str(ToStringChars(a) \o ToStringChars(b))

Dot == Str(<<".">>)

\* The key attributes are kept under
DollarKey == <<"$">>

\* Object.keys(o), as a set: an array has its indices for keys
Keys(o) ==
    CASE o.t = "object" -> DOMAIN o.v
      [] o.t = "array" -> {NumToChars(i - 1) : i \in 1..Len(o.v)}
      [] OTHER -> {}

\* o[k] for any non-absent o
GetProp(o, k) ==
    CASE o.t = "object" -> Get(o, k)
      [] o.t = "array" ->
            IF \E i \in 1..Len(o.v) : NumToChars(i - 1) = k
            THEN o.v[CHOOSE i \in 1..Len(o.v) : NumToChars(i - 1) = k]
            ELSE IF "props" \in DOMAIN o /\ k \in DOMAIN o.props THEN o.props[k]
            ELSE Undefined
      [] OTHER -> Undefined

\* o[k] = v: the object after the assignment.  The module is strict code, so
\* the assignment throws a TypeError on null, undefined and on a primitive.
\* An array keeps the properties given to it beside its elements.
SetProp(o, k, v) ==
    CASE o.t = "object" -> Put(o, k, v)
      [] o.t = "array" ->
            LET old == IF "props" \in DOMAIN o THEN o.props ELSE EmptyObject
            IN  [t |-> "array", v |-> o.v,
                 props |-> [x \in (DOMAIN old) \cup {k} |-> IF x = k THEN v ELSE old[x]]]
      [] OTHER -> TypeError(Undefined)

RECURSIVE GetAt(_, _)
\* The object a path of keys leads to from root
GetAt(root, path) ==
    IF path = <<>> THEN root
    ELSE GetAt(GetProp(root, Head(path)), Tail(path))

RECURSIVE SetAt(_, _, _, _)
\* root after (the object path leads to)[k] = v
SetAt(root, path, k, v) ==
    IF path = <<>> THEN SetProp(root, k, v)
    ELSE LET inner == SetAt(GetProp(root, Head(path)), Tail(path), k, v)
         IN  IF IsErr(inner) THEN inner ELSE SetProp(root, Head(path), inner)

RECURSIVE SplitOn(_, _)
\* prop.split(sep) for a one-character sep: at least one item
SplitOn(s, sep) ==
    IF \E i \in 1..Len(s) : s[i] = sep
    THEN LET i == CHOOSE j \in 1..Len(s) : s[j] = sep /\ \A k \in 1..(j - 1) : s[k] # sep
         IN  <<SubSeq(s, 1, i - 1)>> \o SplitOn(SubSeq(s, i + 1, Len(s)), sep)
    ELSE <<s>>

RECURSIVE joinSubwords(_, _, _)
\* The loop of splitSerializeName over subwords from index i on, partialclass
\* being the text gathered so far
joinSubwords(subwords, i, partialclass) ==
    IF i > Len(subwords) THEN <<>>
    ELSE LET item == subwords[i]
         IN  IF Len(item) > 0 /\ item[Len(item)] = "\\"
             THEN joinSubwords(subwords, i + 1,
                               partialclass \o SubSeq(item, 1, Len(item) - 1) \o <<".">>)
             ELSE <<partialclass \o item>> \o joinSubwords(subwords, i + 1, <<>>)

\* The path a serializedName names: it is split on the dots that no backslash
\* escapes
splitSerializeName(prop) == joinSubwords(SplitOn(prop, "."), 1, <<>>)

RECURSIVE trimEnd(_, _)
trimEnd(str, ch) ==
    IF Len(str) - 1 >= 0 /\ str[Len(str)] = ch
    THEN trimEnd(SubSeq(str, 1, Len(str) - 1), ch)
    ELSE str

\* str.replace(/from/g, to) for one-character from and to
ReplaceAll(str, from, to) == [i \in 1..Len(str) |-> IF str[i] = from THEN to ELSE str[i]]

-----------------------------------------------------------------------------
(* The collaborators of ./util: base64 and the shape validators *)

Base64Alphabet ==
    <<
      "A", "B", "C", "D", "E", "F", "G", "H", "I", "J", "K", "L", "M",
      "N", "O", "P", "Q", "R", "S", "T", "U", "V", "W", "X", "Y", "Z",
      "a", "b", "c", "d", "e", "f", "g", "h", "i", "j", "k", "l", "m",
      "n", "o", "p", "q", "r", "s", "t", "u", "v", "w", "x", "y", "z",
      "0", "1", "2", "3", "4", "5", "6", "7", "8", "9", "+", "/"
    >>

Base64Index(c) == (CHOOSE i \in 1..Len(Base64Alphabet) : Base64Alphabet[i] = c) - 1

Base64Char(n) == Base64Alphabet[n + 1]

RECURSIVE encodeByteArray(_)
\* base64.encodeByteArray: the padded base64 text of the bytes
encodeByteArray(bytes) ==
    IF Len(bytes) = 0 THEN <<>>
    ELSE IF Len(bytes) = 1
    THEN <<Base64Char(bytes[1] \div 4), Base64Char((bytes[1] % 4) * 16), "=", "=">>
    ELSE IF Len(bytes) = 2
    THEN <<Base64Char(bytes[1] \div 4),
           Base64Char((bytes[1] % 4) * 16 + bytes[2] \div 16),
           Base64Char((bytes[2] % 16) * 4), "=">>
    ELSE <<Base64Char(bytes[1] \div 4),
           Base64Char((bytes[1] % 4) * 16 + bytes[2] \div 16),
           Base64Char((bytes[2] % 16) * 4 + bytes[3] \div 64),
           Base64Char(bytes[3] % 64)>> \o encodeByteArray(SubSeq(bytes, 4, Len(bytes)))

RECURSIVE decodeSextets(_)
decodeSextets(n) ==
    IF Len(n) < 2 THEN <<>>
    ELSE IF Len(n) = 2 THEN <<n[1] * 4 + n[2] \div 16>>
    ELSE IF Len(n) = 3 THEN <<n[1] * 4 + n[2] \div 16, (n[2] % 16) * 16 + n[3] \div 4>>
    ELSE <<n[1] * 4 + n[2] \div 16, (n[2] % 16) * 16 + n[3] \div 4, (n[3] % 4) * 64 + n[4]>>
         \o decodeSextets(SubSeq(n, 5, Len(n)))

\* base64.decodeString: the bytes of a base64 text, padded or not; a
\* character outside the alphabet is skipped
decodeString(str) ==
    LET kept == SelectSeq(str, LAMBDA c : \E i \in 1..Len(Base64Alphabet) : Base64Alphabet[i] = c)
    IN  decodeSextets([i \in 1..Len(kept) |-> Base64Index(kept[i])])

HexChars == {"0", "1", "2", "3", "4", "5", "6", "7", "8", "9",
             "a", "b", "c", "d", "e", "f", "A", "B", "C", "D", "E", "F"}

\* utils.isValidUuid: five groups of 8, 4, 4, 4 and 12 hexadecimal digits
isValidUuid(value) ==
    /\ value.t = "string"
    /\ Len(value.v) = 36
    /\ \A i \in 1..36 :
          IF i \in {9, 14, 19, 24} THEN value.v[i] = "-" ELSE value.v[i] \in HexChars

\* utils.isDuration: an ISO 8601 duration, which starts with P
isDuration(value) ==
    value.t = "string" /\ Len(value.v) > 1 /\ value.v[1] = "P"

-----------------------------------------------------------------------------
(* Dates *)

MsPerSecond == 1000
MsPerDay == 86400000

InvalidDate == [t |-> "invaliddate"]

\* value instanceof Date
IsDate(value) == value.t \in {"date", "invaliddate"}

\* The instant, in milliseconds, a date text denotes
DateStringMs(ds) ==
    CASE ds.fmt = "date" -> ds.v * MsPerDay
      [] ds.fmt = "datetime" -> ds.v
      [] OTHER -> ds.v * MsPerSecond

\* new Date(x): the texts of the model other than a date text parse to no date
NewDate(x) ==
    CASE x.t = "date" -> x
      [] x.t = "datestring" -> DateOf(DateStringMs(x))
      [] x.t = "string" -> InvalidDate
      [] OTHER -> IF ToNumber(x).t = "number" THEN DateOf(ToNumber(x).v) ELSE InvalidDate

\* value instanceof Date || (typeof value.valueOf() === "string" && !isNaN(Date.parse(value)))
IsDateOrDateText(value) == IsDate(value) \/ value.t = "datestring"

\* new Date(d).getTime() / 1000 floored
dateToUnixTime(d) ==
    IF ~Truthy(d) THEN Undefined
    ELSE LET date == IF TypeOf(d) = "string" THEN NewDate(d) ELSE d
         IN  IF date.t = "date" THEN Num(date.v \div MsPerSecond) ELSE NaN

unixTimeToDate(n) ==
    IF ~Truthy(n) THEN Undefined
    ELSE IF ToNumber(n).t = "number" THEN DateOf(ToNumber(n).v * MsPerSecond)
    ELSE InvalidDate

\* toISOString and toUTCString throw a RangeError or give "Invalid Date" on
\* an invalid Date;  RangeErrorOf is the throw
RangeErrorOf(objectName) == Err("RangeError", objectName, "Invalid time value")

serializeDateTypes(typeName, value, objectName) ==
    IF IsAbsent(value) THEN value
    ELSE IF typeName \in {"Date", "DateTime", "DateTimeRfc1123", "UnixTime"}
    THEN IF ~IsDateOrDateText(value)
         THEN Err("TypeShape", objectName, typeName)
         ELSE LET date == NewDate(value)
              IN  CASE typeName = "Date" ->
                         IF date.t = "date" THEN DateString("date", date.v \div MsPerDay)
                         ELSE RangeErrorOf(objectName)
                    [] typeName = "DateTime" ->
                         IF date.t = "date" THEN DateString("datetime", date.v)
                         ELSE RangeErrorOf(objectName)
                    [] typeName = "DateTimeRfc1123" ->
                         IF date.t = "date" THEN DateString("rfc1123", date.v \div MsPerSecond)
                         ELSE Str(<<"I", "n", "v", "a", "l", "i", "d", " ", "D", "a", "t", "e">>)
                    [] OTHER -> dateToUnixTime(value)
    ELSE IF typeName = "TimeSpan"
    THEN IF ~isDuration(value) THEN Err("TypeShape", objectName, typeName) ELSE value
    ELSE value

-----------------------------------------------------------------------------
(* The primitive codecs of serialize *)

serializeBasicTypes(typeName, objectName, value) ==
    IF ~IsAbsent(value)
    THEN CASE typeName = "Number" ->
                IF TypeOf(value) # "number" THEN Err("TypeShape", objectName, typeName) ELSE value
           [] typeName = "String" ->
                IF TypeOf(value) # "string" THEN Err("TypeShape", objectName, typeName) ELSE value
           [] typeName = "Uuid" ->
                IF ~(TypeOf(value) = "string" /\ isValidUuid(value))
                THEN Err("TypeShape", objectName, typeName) ELSE value
           [] typeName = "Boolean" ->
                IF TypeOf(value) # "boolean" THEN Err("TypeShape", objectName, typeName) ELSE value
           [] typeName = "Stream" ->
                IF TypeOf(value) # "string" /\ TypeOf(value) # "function" /\ value.t # "uint8array"
                THEN Err("TypeShape", objectName, typeName) ELSE value
           [] OTHER -> value
    ELSE value

\* item.valueOf() and value.toLowerCase() throw a TypeError on a value that
\* has no such method
EnumItemThrows(item, value) ==
    IsAbsent(item) \/ (TypeOf(item) = "string" /\ TypeOf(value) # "string")

\* EnumItemMatches with the comparison of texts made exact
EnumItemMatchesExactCase(item, value) == item = value /\ item.t # "nan"

EnumItemMatches(item, value) ==
    IF TypeOf(item) = "string"
    THEN toLowerCase(item.v) = toLowerCase(value.v)
    ELSE item = value /\ item.t # "nan"

serializeEnumType(objectName, allowedValues, value) ==
    IF ~Truthy(allowedValues)
    THEN Err("Configuration", objectName, "allowedValues")
    ELSE IF allowedValues.t # "array" THEN TypeError(objectName)
    ELSE LET items == allowedValues.v
             \* some() stops at the first item that matches or throws
             stops(i) == EnumItemThrows(items[i], value) \/ EnumItemMatches(items[i], value)
         IN  IF \E i \in 1..Len(items) : stops(i)
             THEN LET first == CHOOSE i \in 1..Len(items) :
                                  stops(i) /\ \A j \in 1..(i - 1) : ~stops(j)
                  IN  IF EnumItemThrows(items[first], value) THEN TypeError(objectName)
                      ELSE value
             ELSE Err("Enum", objectName, allowedValues)

serializeByteArrayType(objectName, value) ==
    IF ~IsAbsent(value)
    THEN IF value.t # "uint8array" THEN Err("TypeShape", objectName, "ByteArray")
         ELSE Str(encodeByteArray(value.v))
    ELSE value

\* bufferToBase64Url without the trimEnd that drops the padding
bufferToBase64UrlPadded(buffer) ==
    IF ~Truthy(buffer) THEN Undefined
    ELSE IF buffer.t # "uint8array" THEN Err("TypeShape", Undefined, "Base64Url")
    ELSE Str(ReplaceAll(ReplaceAll(encodeByteArray(buffer.v), "+", "-"), "/", "_"))

bufferToBase64Url(buffer) ==
    IF ~Truthy(buffer) THEN Undefined
    ELSE IF buffer.t # "uint8array" THEN Err("TypeShape", Undefined, "Base64Url")
    ELSE Str(ReplaceAll(ReplaceAll(trimEnd(encodeByteArray(buffer.v), "="), "+", "-"), "/", "_"))

base64UrlToByteArray(str) ==
    IF ~Truthy(str) THEN Undefined
    ELSE IF TypeOf(str) # "string" THEN Err("TypeShape", Undefined, "Base64Url")
    ELSE Uint8Array(decodeString(ReplaceAll(ReplaceAll(ToStringChars(str), "-", "+"), "_", "/")))

serializeBase64UrlType(objectName, value) ==
    IF ~IsAbsent(value)
    THEN IF value.t # "uint8array" THEN Err("TypeShape", objectName, "Base64Url")
         ELSE bufferToBase64Url(value)
    ELSE value

-----------------------------------------------------------------------------
(* Polymorphic resolution *)

\* serializer.modelMappers && serializer.modelMappers.discriminators[index]:
\* a registry without the discriminators key makes the read throw
DiscriminatorLookup(ser, indexDiscriminator, objectName) ==
    IF ~Truthy(ser.modelMappers) THEN ser.modelMappers
    ELSE IF IsAbsent(ser.modelMappers.discriminators) THEN TypeError(objectName)
    ELSE GetProp(ser.modelMappers.discriminators, ToStringChars(indexDiscriminator))

\* The part the two versions share: fieldName is the name of the field that
\* holds the discriminator value
ResolveByField(ser, m, obj, objectName, fieldName) ==
    LET value == GetProp(obj, ToStringChars(fieldName))
        indexDiscriminator ==
            IF value = m.type.uberParent THEN value
            ELSE Concat(Concat(m.type.uberParent, Dot), value)
        found == DiscriminatorLookup(ser, indexDiscriminator, objectName)
    IN  IF IsErr(found) THEN found
        ELSE IF Truthy(found) THEN found
        ELSE m

getPolymorphicMapperStringVersion(ser, m, obj, objectName) ==
    LET discriminatorAsString == m.type.polymorphicDiscriminator
    IN  IF ~IsAbsent(discriminatorAsString)
        THEN IF IsAbsent(obj)
             THEN Err("Discriminator", objectName, "cannot be null or undefined")
             ELSE IF IsAbsent(GetProp(obj, ToStringChars(discriminatorAsString)))
             THEN Err("Discriminator", objectName, "No discriminator field")
             ELSE ResolveByField(ser, m, obj, objectName, discriminatorAsString)
        ELSE m

\* getPolymorphicMapperObjectVersion reading the field clientName names in
\* both modes
getPolymorphicMapperObjectVersionClientName(ser, m, obj, objectName, mode) ==
    IF mode \notin {"serialize", "deserialize"}
    THEN Err("Configuration", objectName, "mode")
    ELSE LET discriminatorAsObject == m.type.polymorphicDiscriminator
             fieldName == discriminatorAsObject.clientName
         IN  IF Truthy(discriminatorAsObject) /\ ~IsAbsent(fieldName)
             THEN IF IsAbsent(obj)
                  THEN Err("Discriminator", objectName, "cannot be null or undefined")
                  ELSE IF IsAbsent(GetProp(obj, ToStringChars(fieldName)))
                  THEN Err("Discriminator", objectName, "No discriminator field")
                  ELSE ResolveByField(ser, m, obj, objectName, fieldName)
             ELSE m

getPolymorphicMapperObjectVersion(ser, m, obj, objectName, mode) ==
    IF mode \notin {"serialize", "deserialize"}
    THEN Err("Configuration", objectName, "mode")
    ELSE LET discriminatorAsObject == m.type.polymorphicDiscriminator
             fieldName == IF mode = "serialize" THEN discriminatorAsObject.clientName
                          ELSE discriminatorAsObject.serializedName
         IN  IF Truthy(discriminatorAsObject) /\ ~IsAbsent(fieldName)
             THEN IF IsAbsent(obj)
                  THEN Err("Discriminator", objectName, "cannot be null or undefined")
                  ELSE IF IsAbsent(GetProp(obj, ToStringChars(fieldName)))
                  THEN Err("Discriminator", objectName, "No discriminator field")
                  ELSE ResolveByField(ser, m, obj, objectName, fieldName)
             ELSE m

getPolymorphicMapper(ser, m, obj, objectName, mode) ==
    LET polymorphicDiscriminator == m.type.polymorphicDiscriminator
    IN  IF Truthy(polymorphicDiscriminator)
        THEN IF TypeOf(polymorphicDiscriminator) = "string"
             THEN getPolymorphicMapperStringVersion(ser, m, obj, objectName)
             ELSE IF polymorphicDiscriminator.t = "discriminator"
             THEN getPolymorphicMapperObjectVersion(ser, m, obj, objectName, mode)
             ELSE Err("Configuration", objectName, "polymorphicDiscriminator")
        ELSE m

\* The modelProperties of a composite mapper, its own or those of the mapper
\* the registry holds for its className; the Error thrown when neither exists
ResolveModelProperties(ser, m, objectName) ==
    IF Truthy(m.type.modelProperties) THEN m.type.modelProperties
    ELSE IF ~Truthy(m.type.className)
    THEN Err("Configuration", objectName, "className")
    ELSE IF IsAbsent(ser.modelMappers) THEN TypeError(objectName)
    ELSE LET modelMapper == GetProp(Obj(ser.modelMappers.v), ToStringChars(m.type.className))
         IN  IF ~Truthy(modelMapper)
             THEN Err("Configuration", objectName, "mapper")
             ELSE IF ~Truthy(modelMapper.type.modelProperties)
             THEN Err("Configuration", objectName, "modelProperties")
             ELSE modelMapper.type.modelProperties

-----------------------------------------------------------------------------
(* serialize *)

RECURSIVE serialize(_, _, _, _)
RECURSIVE serializeElements(_, _, _, _, _)
RECURSIVE serializeProperties(_, _, _, _, _, _)
RECURSIVE walkPaths(_, _, _, _, _)

\* AbsentnessError with the null test of an optional value made loose: an
\* unset nullable is taken for false
AbsentnessErrorLooseNullable(m, obj, objectName) ==
    LET required == m.required
        nullable == m.nullable
    IN  IF Truthy(required) /\ Truthy(nullable) /\ obj = Undefined
        THEN Err("Absentness", objectName, "cannot be undefined")
        ELSE IF Truthy(required) /\ ~Truthy(nullable) /\ IsAbsent(obj)
        THEN Err("Absentness", objectName, "cannot be null or undefined")
        ELSE IF ~Truthy(required) /\ ~Truthy(nullable) /\ obj = Null
        THEN Err("Absentness", objectName, "cannot be null")
        ELSE Undefined

\* The Error of the absentness table, or undefined when the table accepts obj
AbsentnessError(m, obj, objectName) ==
    LET required == m.required
        nullable == m.nullable
    IN  IF Truthy(required) /\ Truthy(nullable) /\ obj = Undefined
        THEN Err("Absentness", objectName, "cannot be undefined")
        ELSE IF Truthy(required) /\ ~Truthy(nullable) /\ IsAbsent(obj)
        THEN Err("Absentness", objectName, "cannot be null or undefined")
        ELSE IF ~Truthy(required) /\ nullable = Bool(FALSE) /\ obj = Null
        THEN Err("Absentness", objectName, "cannot be null")
        ELSE Undefined

\* The loop of serializeSequenceType from index i on
serializeElements(ser, elementType, arr, i, objectName) ==
    IF i > Len(arr) THEN Arr(<<>>)
    ELSE LET head == serialize(ser, elementType, arr[i], objectName)
         IN  IF IsErr(head) THEN head
             ELSE LET rest == serializeElements(ser, elementType, arr, i + 1, objectName)
                  IN  IF IsErr(rest) THEN rest ELSE Arr(<<head>> \o rest.v)

serializeSequenceType(ser, m, obj, objectName) ==
    IF obj.t # "array"
    THEN Err("TypeShape", objectName, "Sequence")
    ELSE LET elementType == m.type.element
         IN  IF ~Truthy(elementType) \/ TypeOf(elementType) # "object"
             THEN Err("Configuration", objectName, "element")
             ELSE LET tempArray == serializeElements(ser, elementType, obj.v, 1, objectName)
                  IN  tempArray

\* An object keeps no order of its keys here: of several values that fail,
\* the Error is that of one of them.
serializeDictionaryType(ser, m, obj, objectName) ==
    IF TypeOf(obj) # "object"
    THEN Err("TypeShape", objectName, "Dictionary")
    ELSE LET valueType == m.type.value
         IN  IF ~Truthy(valueType) \/ TypeOf(valueType) # "object"
             THEN Err("Configuration", objectName, "value")
             ELSE LET tempDictionary ==
                          [key \in Keys(obj) |->
                              serialize(ser, valueType, GetProp(obj, key),
                                        Concat(Concat(objectName, Dot), Str(key)))]
                  IN  IF \E key \in Keys(obj) : IsErr(tempDictionary[key])
                      THEN tempDictionary[CHOOSE key \in Keys(obj) : IsErr(tempDictionary[key])]
                      ELSE Obj(tempDictionary)

\* The loop over the path of a serializedName: payload is the whole payload
\* so far and ptr the keys that lead from it to parentObject.  The result is
\* the two after the loop, or the TypeError of reading a property of an
\* absent parentObject or of writing one on a primitive.
walkPaths(payload, ptr, paths, i, valuePresent) ==
    IF i > Len(paths) THEN [t |-> "walked", payload |-> payload, ptr |-> ptr]
    ELSE LET parentObject == GetAt(payload, ptr)
             pathName == paths[i]
         IN  IF IsAbsent(parentObject) THEN TypeError(Undefined)
             ELSE LET childObject == GetProp(parentObject, pathName)
                  IN  IF IsAbsent(childObject) /\ valuePresent
                      THEN LET made == SetAt(payload, ptr, pathName, Obj(EmptyObject))
                           IN  IF IsErr(made) THEN made
                               ELSE walkPaths(made, ptr \o <<pathName>>, paths, i + 1, valuePresent)
                      ELSE walkPaths(payload, ptr \o <<pathName>>, paths, i + 1, valuePresent)

\* PropertyPaths with a wrapped property named as an unwrapped one is
PropertyPathsByElementName(ser, propertyMapper) ==
    IF ser.isXML
    THEN [propName |-> IF Truthy(propertyMapper.xmlElementName)
                       THEN propertyMapper.xmlElementName
                       ELSE propertyMapper.xmlName,
          paths |-> <<>>]
    ELSE LET paths == splitSerializeName(ToStringChars(propertyMapper.serializedName))
         IN  [propName |-> IF Len(paths) = 0 THEN Undefined ELSE Str(paths[Len(paths)]),
              paths |-> IF Len(paths) = 0 THEN <<>> ELSE SubSeq(paths, 1, Len(paths) - 1)]

\* propName and the path to parentObject of one property
PropertyPaths(ser, propertyMapper) ==
    IF ser.isXML
    THEN [propName |-> IF Truthy(propertyMapper.xmlIsWrapped) THEN propertyMapper.xmlName
                       ELSE IF Truthy(propertyMapper.xmlElementName)
                       THEN propertyMapper.xmlElementName
                       ELSE propertyMapper.xmlName,
          paths |-> <<>>]
    ELSE LET paths == splitSerializeName(ToStringChars(propertyMapper.serializedName))
         IN  [propName |-> IF Len(paths) = 0 THEN Undefined ELSE Str(paths[Len(paths)]),
              paths |-> IF Len(paths) = 0 THEN <<>> ELSE SubSeq(paths, 1, Len(paths) - 1)]

\* The write of one serialized property value into parentObject
WriteProperty(payload, ptr, propertyMapper, propName, serializedValue) ==
    LET parentObject == GetAt(payload, ptr)
        key == ToStringChars(propName)
    IN  IF Truthy(propertyMapper.xmlIsAttribute)
        THEN LET had == GetProp(parentObject, DollarKey)
                 attrs == SetProp(IF Truthy(had) THEN had ELSE Obj(EmptyObject),
                                  key, serializedValue)
             IN  IF IsErr(attrs) THEN attrs ELSE SetAt(payload, ptr, DollarKey, attrs)
        ELSE IF Truthy(propertyMapper.xmlIsWrapped)
        THEN SetAt(payload, ptr, key,
                   Obj(ToStringChars(propertyMapper.xmlElementName) :> serializedValue))
        ELSE SetAt(payload, ptr, key, serializedValue)

\* The body of the loop of serializeCompositeType for one property: the
\* payload after it, or the Error thrown
serializeProperty(ser, prop, obj, objectName, payload) ==
    LET propertyMapper == prop.mapper
        key == prop.key
        named == PropertyPaths(ser, propertyMapper)
        walked == walkPaths(payload, <<>>, named.paths, 1, ~IsAbsent(GetProp(obj, key)))
    IN  IF IsErr(walked) THEN walked
        ELSE IF Truthy(propertyMapper.readOnly) THEN walked.payload
        ELSE IF IsAbsent(GetAt(walked.payload, walked.ptr)) THEN walked.payload
        ELSE LET propertyObjectName ==
                     IF propertyMapper.serializedName # Str(<<>>)
                     THEN Concat(Concat(objectName, Dot), propertyMapper.serializedName)
                     ELSE objectName
                 serializedValue ==
                     serialize(ser, propertyMapper, GetProp(obj, key), propertyObjectName)
             IN  IF IsErr(serializedValue) THEN serializedValue
                 ELSE IF serializedValue # Undefined /\ ~IsAbsent(named.propName)
                 THEN WriteProperty(walked.payload, walked.ptr, propertyMapper,
                                    named.propName, serializedValue)
                 ELSE walked.payload

\* The loop of serializeCompositeType over modelProps from index i on
serializeProperties(ser, modelProps, i, obj, objectName, payload) ==
    IF i > Len(modelProps) THEN payload
    ELSE LET next == serializeProperty(ser, modelProps[i], obj, objectName, payload)
         IN  IF IsErr(next) THEN next
             ELSE serializeProperties(ser, modelProps, i + 1, obj, objectName, next)

serializeCompositeType(ser, declared, obj, objectName) ==
    LET m == IF Truthy(declared.type.polymorphicDiscriminator)
             THEN getPolymorphicMapper(ser, declared, obj, objectName, "serialize")
             ELSE declared
    IN  IF IsErr(m) THEN m
        ELSE IF ~IsAbsent(obj)
        THEN LET modelProps == ResolveModelProperties(ser, m, objectName)
             IN  IF IsErr(modelProps) THEN modelProps
                 ELSE serializeProperties(ser, modelProps.v, 1, obj, objectName,
                                          Obj(EmptyObject))
        ELSE obj

serialize(ser, m, objectIn, objectNameIn) ==
    LET mapperType == m.type.name
        objectName == IF ~Truthy(objectNameIn) THEN m.serializedName ELSE objectNameIn
        obj == IF IsAbsent(objectIn) /\ (~IsAbsent(m.defaultValue) \/ Truthy(m.isConstant))
               THEN m.defaultValue
               ELSE objectIn
        refused == AbsentnessError(m, obj, objectName)
    IN  IF IsErr(refused) THEN refused
        ELSE IF IsAbsent(obj) THEN obj
        ELSE LET invalid == validateConstraints(m, obj, objectName)
             IN  IF IsErr(invalid) THEN invalid
                 ELSE CASE mapperType = "any" -> obj
                        [] mapperType \in {"Number", "String", "Boolean", "Object", "Stream", "Uuid"} ->
                             serializeBasicTypes(mapperType, objectName, obj)
                        [] mapperType = "Enum" ->
                             serializeEnumType(objectName, m.type.allowedValues, obj)
                        [] mapperType \in {"Date", "DateTime", "TimeSpan", "DateTimeRfc1123", "UnixTime"} ->
                             serializeDateTypes(mapperType, obj, objectName)
                        [] mapperType = "ByteArray" -> serializeByteArrayType(objectName, obj)
                        [] mapperType = "Base64Url" -> serializeBase64UrlType(objectName, obj)
                        [] mapperType = "Sequence" -> serializeSequenceType(ser, m, obj, objectName)
                        [] mapperType = "Dictionary" -> serializeDictionaryType(ser, m, obj, objectName)
                        [] mapperType = "Composite" -> serializeCompositeType(ser, m, obj, objectName)
                        \* no branch matches the type name: payload is still the {}
                        \* it was initialised to
                        [] OTHER -> Obj(EmptyObject)

-----------------------------------------------------------------------------
(* deserialize *)

RECURSIVE deserialize(_, _, _, _)
RECURSIVE deserializeElements(_, _, _, _, _)
RECURSIVE deserializeProperties(_, _, _, _, _, _)
RECURSIVE walkResponse(_, _, _)

\* deserializeAbsent with the absentness table of serialize applied first
deserializeAbsentChecked(ser, m, body, objectNameIn) ==
    LET refused == AbsentnessError(m, body, IF ~Truthy(objectNameIn) THEN m.serializedName
                                            ELSE objectNameIn)
    IN  IF IsErr(refused) THEN refused
        ELSE IF ser.isXML /\ m.type.name = "Sequence" /\ ~Truthy(m.xmlIsWrapped)
        THEN Arr(<<>>)
        ELSE body

\* What deserialize returns for a responseBody that is null or undefined: the
\* responseBody itself, but [] for a non-wrapped Sequence under XML
deserializeAbsent(ser, m, body, objectNameIn) ==
    IF ser.isXML /\ m.type.name = "Sequence" /\ ~Truthy(m.xmlIsWrapped)
    THEN Arr(<<>>)
    ELSE body

\* parseFloat(x): the texts of the model hold no digits and parse to NaN
parseFloat(x) ==
    CASE x.t = "number" -> x
      [] x.t = "array" -> IF Len(x.v) > 0 /\ x.v[1].t = "number" THEN x.v[1] ELSE NaN
      [] OTHER -> NaN

\* The loop of deserializeSequenceType from index i on
deserializeElements(ser, element, arr, i, objectName) ==
    IF i > Len(arr) THEN Arr(<<>>)
    ELSE LET head == deserialize(ser, element, arr[i], objectName)
         IN  IF IsErr(head) THEN head
             ELSE LET rest == deserializeElements(ser, element, arr, i + 1, objectName)
                  IN  IF IsErr(rest) THEN rest ELSE Arr(<<head>> \o rest.v)

deserializeSequenceType(ser, m, body, objectName) ==
    LET element == m.type.element
    IN  IF ~Truthy(element) \/ TypeOf(element) # "object"
        THEN Err("Configuration", objectName, "element")
        ELSE IF Truthy(body)
        THEN LET list == IF body.t # "array" THEN <<body>> ELSE body.v
                 tempArray == deserializeElements(ser, element, list, 1, objectName)
             IN  tempArray
        ELSE body

deserializeDictionaryType(ser, m, body, objectName) ==
    LET value == m.type.value
    IN  IF ~Truthy(value) \/ TypeOf(value) # "object"
        THEN Err("Configuration", objectName, "value")
        ELSE IF Truthy(body)
        THEN LET tempDictionary ==
                     [key \in Keys(body) |->
                         deserialize(ser, value, GetProp(body, key), objectName)]
             IN  IF \E key \in Keys(body) : IsErr(tempDictionary[key])
                 THEN tempDictionary[CHOOSE key \in Keys(body) : IsErr(tempDictionary[key])]
                 ELSE Obj(tempDictionary)
        ELSE body

\* The traversal of the response along a path: it stops at a falsy level
walkResponse(res, paths, i) ==
    IF i > Len(paths) THEN res
    ELSE IF ~Truthy(res) THEN res
    ELSE walkResponse(GetProp(res, paths[i]), paths, i + 1)

\* headerKey.startsWith(prefix)
StartsWith(headerKey, prefix) ==
    Len(headerKey) >= Len(prefix) /\ SubSeq(headerKey, 1, Len(prefix)) = prefix

\* The dictionary of the response keys that start with the prefix
HeaderCollection(ser, propertyMapper, body, propertyObjectName) ==
    LET prefix == ToStringChars(propertyMapper.headerCollectionPrefix)
        headerKeys == {k \in Keys(body) : StartsWith(k, prefix)}
        valueOf(headerKey) ==
            deserialize(ser, propertyMapper.type.value, GetProp(body, headerKey),
                        propertyObjectName)
        short(headerKey) == SubSeq(headerKey, Len(prefix) + 1, Len(headerKey))
    IN  IF \E k \in headerKeys : IsErr(valueOf(k))
        THEN valueOf(CHOOSE k \in headerKeys : IsErr(valueOf(k)))
        ELSE Obj([s \in {short(k) : k \in headerKeys} |->
                    valueOf(CHOOSE k \in headerKeys : short(k) = s)])

\* The XML branch of the loop of deserializeCompositeType: the value that
\* instance[key] is set to
XmlPropertyValue(ser, propertyMapper, body, propertyObjectName) ==
    IF Truthy(propertyMapper.xmlIsAttribute) /\ Truthy(GetProp(body, DollarKey))
    THEN deserialize(ser, propertyMapper,
                     GetProp(GetProp(body, DollarKey), ToStringChars(propertyMapper.xmlName)),
                     propertyObjectName)
    ELSE LET propertyName == IF Truthy(propertyMapper.xmlElementName)
                             THEN propertyMapper.xmlElementName
                             ELSE propertyMapper.xmlName
             wrapper == GetProp(body, ToStringChars(propertyMapper.xmlName))
             inner == IF Truthy(wrapper)
                      THEN GetProp(wrapper, ToStringChars(propertyMapper.xmlElementName))
                      ELSE wrapper
             unwrappedProperty ==
                 IF Truthy(propertyMapper.xmlIsWrapped)
                 THEN IF inner = Undefined THEN Arr(<<>>) ELSE inner
                 ELSE GetProp(body, ToStringChars(propertyName))
         IN  deserialize(ser, propertyMapper, unwrappedProperty, propertyObjectName)

\* deserializeProperty with a property named "" decoded from the whole
\* responseBody
deserializePropertyFromWhole(ser, prop, body, objectName, inst) ==
    LET propertyMapper == prop.mapper
        key == prop.key
        propertyObjectName ==
            IF propertyMapper.serializedName # Str(<<>>)
            THEN Concat(Concat(objectName, Dot), propertyMapper.serializedName)
            ELSE objectName
    IN  IF Truthy(propertyMapper.headerCollectionPrefix)
        THEN LET dictionary == HeaderCollection(ser, propertyMapper, body, propertyObjectName)
             IN  IF IsErr(dictionary) THEN dictionary ELSE SetProp(inst, key, dictionary)
        ELSE IF ser.isXML
        THEN LET value == XmlPropertyValue(ser, propertyMapper, body, propertyObjectName)
             IN  IF IsErr(value) THEN value ELSE SetProp(inst, key, value)
        ELSE LET paths == splitSerializeName(ToStringChars(propertyMapper.serializedName))
                 propertyInstance == walkResponse(body, paths, 1)
             IN  IF propertyMapper.serializedName = Str(<<>>)
                 THEN deserialize(ser, propertyMapper, body, propertyObjectName)
                 ELSE IF propertyInstance # Undefined
                 THEN LET serializedValue ==
                              deserialize(ser, propertyMapper, propertyInstance, propertyObjectName)
                      IN  IF IsErr(serializedValue) THEN serializedValue
                          ELSE SetProp(inst, key, serializedValue)
                 ELSE inst

\* The body of the loop of deserializeCompositeType for one property: the
\* instance after it, or the Error thrown
deserializeProperty(ser, prop, body, objectName, inst) ==
    LET propertyMapper == prop.mapper
        key == prop.key
        propertyObjectName ==
            IF propertyMapper.serializedName # Str(<<>>)
            THEN Concat(Concat(objectName, Dot), propertyMapper.serializedName)
            ELSE objectName
    IN  IF Truthy(propertyMapper.headerCollectionPrefix)
        THEN LET dictionary == HeaderCollection(ser, propertyMapper, body, propertyObjectName)
             IN  IF IsErr(dictionary) THEN dictionary ELSE SetProp(inst, key, dictionary)
        ELSE IF ser.isXML
        THEN LET value == XmlPropertyValue(ser, propertyMapper, body, propertyObjectName)
             IN  IF IsErr(value) THEN value ELSE SetProp(inst, key, value)
        ELSE LET paths == splitSerializeName(ToStringChars(propertyMapper.serializedName))
                 propertyInstance == walkResponse(body, paths, 1)
             IN  IF GetProp(body, key).t = "array" /\ propertyMapper.serializedName = Str(<<>>)
                 \* paging: the property's value supplants the instance
                 THEN deserialize(ser, propertyMapper, GetProp(body, key), propertyObjectName)
                 ELSE IF propertyInstance # Undefined
                 THEN LET serializedValue ==
                              deserialize(ser, propertyMapper, propertyInstance, propertyObjectName)
                      IN  IF IsErr(serializedValue) THEN serializedValue
                          ELSE SetProp(inst, key, serializedValue)
                 ELSE inst

\* The loop of deserializeCompositeType over modelProps from index i on
deserializeProperties(ser, modelProps, i, body, objectName, inst) ==
    IF i > Len(modelProps) THEN inst
    ELSE LET next == deserializeProperty(ser, modelProps[i], body, objectName, inst)
         IN  IF IsErr(next) THEN next
             ELSE deserializeProperties(ser, modelProps, i + 1, body, objectName, next)

deserializeCompositeType(ser, declared, bodyIn, objectName) ==
    LET m == IF Truthy(declared.type.polymorphicDiscriminator)
             THEN getPolymorphicMapper(ser, declared, bodyIn, objectName, "deserialize")
             ELSE declared
    IN  IF IsErr(m) THEN m
        ELSE LET body == IF Truthy(bodyIn) THEN bodyIn ELSE Obj(EmptyObject)
                 modelProps == ResolveModelProperties(ser, m, objectName)
             IN  IF IsErr(modelProps) THEN modelProps
                 ELSE deserializeProperties(ser, modelProps.v, 1, body, objectName,
                                            Obj(EmptyObject))

deserialize(ser, m, body, objectNameIn) ==
    IF IsAbsent(body)
    THEN deserializeAbsent(ser, m, body, objectNameIn)
    ELSE LET mapperType == m.type.name
             objectName == IF ~Truthy(objectNameIn) THEN m.serializedName ELSE objectNameIn
             decoded ==
                 CASE mapperType = "Number" ->
                        IF parseFloat(body).t = "nan" THEN body ELSE parseFloat(body)
                   [] mapperType = "Boolean" ->
                        IF body = Str(<<"t", "r", "u", "e">>) THEN Bool(TRUE)
                        ELSE IF body = Str(<<"f", "a", "l", "s", "e">>) THEN Bool(FALSE)
                        ELSE body
                   [] mapperType \in {"String", "Enum", "Object", "Stream", "Uuid", "TimeSpan", "any"} ->
                        body
                   [] mapperType \in {"Date", "DateTime", "DateTimeRfc1123"} -> NewDate(body)
                   [] mapperType = "UnixTime" -> unixTimeToDate(body)
                   [] mapperType = "ByteArray" ->
                        IF TypeOf(body) = "string" THEN Uint8Array(decodeString(ToStringChars(body)))
                        ELSE TypeError(objectName)
                   [] mapperType = "Base64Url" -> base64UrlToByteArray(body)
                   [] mapperType = "Sequence" -> deserializeSequenceType(ser, m, body, objectName)
                   [] mapperType = "Dictionary" -> deserializeDictionaryType(ser, m, body, objectName)
                   [] mapperType = "Composite" -> deserializeCompositeType(ser, m, body, objectName)
                   [] OTHER -> Undefined
         IN  IF IsErr(decoded) THEN decoded
             ELSE IF Truthy(m.isConstant) THEN m.defaultValue
             ELSE decoded

-----------------------------------------------------------------------------
(* The values and mappers the calls are drawn from *)

MaxNum == 2
MaxLen == 2
MaxBound == 2

RECURSIVE SeqsUpTo(_, _)
\* The sequences over S of length at most n
SeqsUpTo(S, n) ==
    IF n = 0 THEN {<<>>}
    ELSE LET shorter == SeqsUpTo(S, n - 1)
         IN  shorter \cup {Append(q, x) : q \in shorter, x \in S}

Numbers == {Num(n) : n \in 0..MaxNum}
Letters == {"a", "b"}
Texts == {Str(q) : q \in SeqsUpTo(Letters, MaxLen)}
NumberLists == {Arr(q) : q \in SeqsUpTo({Num(0), Num(1)}, MaxLen)}

Tristate == {Undefined, Bool(TRUE), Bool(FALSE)}

sX == <<"x">>
sY == <<"y">>
sItem == <<"i", "t", "e", "m">>

NumberMapper(serializedName) == BaseMapper(Str(serializedName), MapperType("Number"))

ScalarTypeNames ==
    {"any", "Number", "String", "Boolean", "Object", "Stream", "Uuid", "Date", "DateTime",
     "TimeSpan", "DateTimeRfc1123", "UnixTime", "ByteArray", "Base64Url", "Unknown"}

\* One well-formed mapper of every type tag
TypeSamples ==
    {BaseMapper(Str(sItem), MapperType(n)) : n \in ScalarTypeNames}
    \cup {BaseMapper(Str(sItem), [MapperType("Enum") EXCEPT !.allowedValues = Arr(<<Str(<<"a">>)>>)]),
          BaseMapper(Str(sItem), [MapperType("Sequence") EXCEPT !.element = NumberMapper(sX)]),
          BaseMapper(Str(sItem), [MapperType("Dictionary") EXCEPT !.value = NumberMapper(sX)]),
          BaseMapper(Str(sItem), [MapperType("Composite") EXCEPT
              !.modelProperties = ModelProperties(<<Property(sX, NumberMapper(sX))>>)])}

\* The mappers of the absentness table: every type tag under every setting of
\* required, nullable, isConstant and defaultValue
AbsentnessMappers ==
    {[m EXCEPT !.required = r, !.nullable = n, !.isConstant = c, !.defaultValue = d] :
        m \in TypeSamples, r \in Tristate, n \in Tristate,
        c \in {Undefined, Bool(TRUE)}, d \in {Undefined, Num(1)}}

AbsentnessValues == {Undefined, Null, Num(1), Num(0), Str(<<>>)}

\* The bounds a constraint may be given
ConstraintBounds(name) ==
    CASE name = "Pattern" -> {RegExp("^a")}
      [] name = "UniqueItems" -> {Bool(TRUE)}
      [] OTHER -> {Num(n) : n \in 1..MaxBound}

ConstraintSettings ==
    UNION {{<<name, b>> : b \in ConstraintBounds(name)} : name \in ConstraintNames}

\* The constraints with at most two of them set
ConstraintChoices ==
    {[[NoConstraints EXCEPT ![p[1]] = p[2]] EXCEPT ![q[1]] = q[2]] :
        p \in ConstraintSettings, q \in ConstraintSettings}

ConstraintMappers ==
    {[BaseMapper(Str(sItem), MapperType("any")) EXCEPT !.constraints = c] :
        c \in ConstraintChoices}

ConstraintValues == Numbers \cup Texts \cup NumberLists

-----------------------------------------------------------------------------
(* Timestamps *)

MaxSeconds == 2

\* Instants around every whole second from one second before the epoch on
TimeSamples ==
    {sec * MsPerSecond + ms : sec \in (-1)..MaxSeconds, ms \in {0, 1, 999}}

DateMappers ==
    {BaseMapper(Str(sItem), MapperType(n)) : n \in {"UnixTime", "Date", "DateTime", "DateTimeRfc1123"}}

DateValues == {DateOf(ms) : ms \in TimeSamples}

-----------------------------------------------------------------------------
(* Enums *)

EnumLetters == {"a", "A", "b"}

EnumValues == {Str(q) : q \in SeqsUpTo(EnumLetters, MaxLen)} \cup {Num(1)}

EnumItems == {Str(<<"A", "b">>), Str(<<"b">>), Str(<<"a", "a">>), Str(<<>>), Num(1)}

EnumMappers ==
    {BaseMapper(Str(sItem), [MapperType("Enum") EXCEPT !.allowedValues = Arr(q)]) :
        q \in SeqsUpTo(EnumItems, 2)}

-----------------------------------------------------------------------------
(* A discriminated hierarchy: Animal, with the subtype Dog *)

sKind == <<"k", "i", "n", "d">>
sType == <<"t", "y", "p", "e">>
sName == <<"n", "a", "m", "e">>
sBark == <<"b", "a", "r", "k">>
sAnimal == <<"A", "n", "i", "m", "a", "l">>
sDog == <<"D", "o", "g">>
sCat == <<"C", "a", "t">>

StringMapper(serializedName) == BaseMapper(Str(serializedName), MapperType("String"))

Discriminators ==
    {Str(sKind), PolymorphicDiscriminator(Str(sType), Str(sKind))}

\* The name on the wire of the discriminator property
WireNameOf(disc) == IF disc.t = "discriminator" THEN disc.serializedName.v ELSE disc.v

AnimalProperties(disc) ==
    <<Property(sKind, StringMapper(WireNameOf(disc))), Property(sName, StringMapper(sName))>>

AnimalMapper(disc) ==
    BaseMapper(Str(sAnimal),
               [MapperType("Composite") EXCEPT
                   !.className = Str(sAnimal), !.uberParent = Str(sAnimal),
                   !.polymorphicDiscriminator = disc,
                   !.modelProperties = ModelProperties(AnimalProperties(disc))])

DogMapper(disc) ==
    BaseMapper(Str(sDog),
               [MapperType("Composite") EXCEPT
                   !.className = Str(sDog), !.uberParent = Str(sAnimal),
                   !.polymorphicDiscriminator = disc,
                   !.modelProperties =
                       ModelProperties(AnimalProperties(disc)
                                       \o <<Property(sBark, NumberMapper(sBark))>>)])

\* A mapper no index of the hierarchy should lead to
StrayMapper ==
    BaseMapper(Str(sCat),
               [MapperType("Composite") EXCEPT
                   !.className = Str(sCat),
                   !.modelProperties = ModelProperties(<<Property(sBark, NumberMapper(sBark))>>)])

\* A composite mapper that names its class and leaves modelProperties to the
\* registry
ByClassName(className) ==
    BaseMapper(Str(sItem), [MapperType("Composite") EXCEPT !.className = className])

RegistryClasses ==
    (sAnimal :> AnimalMapper(Str(sKind))) @@ (sDog :> DogMapper(Str(sKind)))
    @@ (sCat :> BaseMapper(Str(sCat), MapperType("Composite")))

\* The index of a populated registry: Dog under "Animal.Dog", the root under
\* "Animal", and a stray mapper under "Animal.Animal"
DiscriminatorIndex(disc) ==
    ((sAnimal \o <<".">> \o sDog) :> DogMapper(disc))
    @@ (sAnimal :> AnimalMapper(disc))
    @@ ((sAnimal \o <<".">> \o sAnimal) :> StrayMapper)

Registries ==
    {Registry(RegistryClasses, Undefined), Registry(RegistryClasses, Obj(EmptyObject))}
    \cup {Registry(RegistryClasses, Obj(DiscriminatorIndex(disc))) : disc \in Discriminators}

\* The object with the fields that are not undefined
ObjectOf(fields) ==
    Obj([k \in {x \in DOMAIN fields : fields[x] # Undefined} |-> fields[k]])

AnimalObjects ==
    {ObjectOf((sKind :> kind) @@ (sType :> type) @@ (sName :> Str(<<"a">>)) @@ (sBark :> bark)) :
        kind \in {Undefined, Null, Str(sDog), Str(sCat), Str(sAnimal)},
        type \in {Undefined, Str(sDog)},
        bark \in {Undefined, Num(1)}}

PolymorphicMappers ==
    {AnimalMapper(disc) : disc \in Discriminators}
    \cup {ByClassName(c) : c \in {Undefined, Str(sDog), Str(sCat), Str(sName)}}

-----------------------------------------------------------------------------
(* Composite mappers with dotted serializedNames *)

PropertyNames ==
    {sX, <<"a">>, <<"a", ".", "b">>, <<"a", ".", "c">>, <<"a", ".", "b", ".", "c">>,
     <<"a", "\\", ".", "b">>, <<>>}

\* The mappers of the property x: a number under every name, read-only or
\* not, required or not
PropertyMappersOfX ==
    {[NumberMapper(n) EXCEPT !.readOnly = ro, !.required = rq] :
        n \in PropertyNames, ro \in {Undefined, Bool(TRUE)}, rq \in {Undefined, Bool(TRUE)}}

PropertyMappersOfY == {NumberMapper(n) : n \in PropertyNames}

CompositeOf(props) ==
    BaseMapper(Str(sItem), [MapperType("Composite") EXCEPT !.modelProperties = ModelProperties(props)])

DottedMappers ==
    {CompositeOf(<<Property(sX, mx)>>) : mx \in PropertyMappersOfX}
    \cup {CompositeOf(<<Property(sX, mx), Property(sY, my)>>) :
            mx \in PropertyMappersOfX, my \in PropertyMappersOfY}
    \cup {CompositeOf(<<Property(sY, my), Property(sX, mx)>>) :
            mx \in PropertyMappersOfX, my \in PropertyMappersOfY}
    \cup {CompositeOf(<<>>)}

DottedObjects ==
    {ObjectOf((sX :> x) @@ (sY :> y)) :
        x \in {Undefined, Null, Num(1)}, y \in {Undefined, Null, Num(2)}}

\* Responses handed to deserialize directly
DottedResponses ==
    {Obj(EmptyObject), Num(0), Str(<<"a">>),
     Obj(sX :> Arr(<<Num(1)>>)), Obj(sX :> Num(1)), Obj(<<>> :> Num(1)),
     Obj(<<"a">> :> Num(1)), Obj(<<"a">> :> Null),
     Obj(<<"a">> :> Obj(<<"b">> :> Num(1))),
     Obj((sX :> Arr(<<Num(1)>>)) @@ (<<"a">> :> Num(2)))}

-----------------------------------------------------------------------------
(* XML: a wrapped list and an attribute *)

sTags == <<"T", "a", "g", "s">>
sTag == <<"T", "a", "g">>
sId == <<"i", "d">>
sIdAttr == <<"I", "d">>

TagsMapper(wrapped) ==
    [BaseMapper(Str(sTags), [MapperType("Sequence") EXCEPT !.element = StringMapper(sTag)])
        EXCEPT !.xmlName = Str(sTags), !.xmlElementName = Str(sTag), !.xmlIsWrapped = wrapped]

IdMapper(elementName) ==
    [StringMapper(sId) EXCEPT !.xmlName = Str(sIdAttr), !.xmlElementName = elementName,
                              !.xmlIsAttribute = Bool(TRUE)]

XmlMappers ==
    {CompositeOf(<<Property(sTags, TagsMapper(w))>>) : w \in {Undefined, Bool(TRUE)}}
    \cup {CompositeOf(<<Property(sId, IdMapper(e)), Property(sTags, TagsMapper(w))>>) :
            e \in {Undefined, Str(sId)}, w \in {Undefined, Bool(TRUE)}}

TagLists == {Arr(q) : q \in SeqsUpTo({Str(<<"a">>)}, MaxLen)}

XmlObjects ==
    {ObjectOf((sTags :> tags) @@ (sId :> id)) :
        tags \in {Undefined, Null} \cup TagLists, id \in {Undefined, Str(<<"b">>)}}

\* What the response may hold for the wrapper element
Wrappers ==
    {Undefined, Null, Str(<<>>), Str(<<"a">>), Obj(EmptyObject)}
    \cup {Obj(sTag :> e) : e \in {Null, Str(<<>>), Str(<<"a">>)} \cup TagLists}

XmlResponses ==
    {ObjectOf((sTags :> w) @@ (sTag :> e) @@ (DollarKey :> attrs)) :
        w \in Wrappers, e \in {Undefined, Str(<<"a">>)},
        attrs \in {Undefined, Obj(sIdAttr :> Str(<<"b">>))}}

\* An element property, with or without an xmlElementName of its own
NameMapper(elementName) ==
    [StringMapper(sName) EXCEPT !.xmlName = Str(sName), !.xmlElementName = elementName]

XmlElementMappers ==
    {CompositeOf(<<Property(sName, NameMapper(e)), Property(sTags, TagsMapper(w))>>) :
        e \in {Undefined, Str(sItem)}, w \in {Undefined, Bool(TRUE)}}

XmlElementObjects ==
    {ObjectOf((sName :> name) @@ (sTags :> tags)) :
        name \in {Undefined, Str(<<"b">>)}, tags \in {Undefined} \cup TagLists}

-----------------------------------------------------------------------------
(* Byte sequences *)

\* 251 and 255 put "+" and "/" into the base64 text
ByteSamples == {0, 251, 255}

ByteMappers == {BaseMapper(Str(sItem), MapperType(n)) : n \in {"Base64Url", "ByteArray"}}

ByteValues ==
    {Uint8Array(q) : q \in SeqsUpTo(ByteSamples, MaxLen)}
    \cup {Uint8Array(<<251, 255, 0>>), Uint8Array(<<255, 255, 255, 251>>)}

-----------------------------------------------------------------------------
(* Lists on the wire *)

SequenceMappers ==
    {BaseMapper(Str(sItem), [MapperType("Sequence") EXCEPT !.element = e]) :
        e \in {NumberMapper(sItem), BaseMapper(Str(sItem), MapperType("Boolean"))}}

WireItems == {Num(0), Num(1), Bool(FALSE), Bool(TRUE), Str(<<>>), Str(<<"t", "r", "u", "e">>)}

SequenceResponses ==
    WireItems
    \cup {Arr(q) : q \in SeqsUpTo({Num(0), Str(<<"t", "r", "u", "e">>)}, MaxLen)}
    \cup {Obj(sX :> Num(1))}

-----------------------------------------------------------------------------
(* Paging: a list property whose serializedName is "" *)

PageMapper ==
    BaseMapper(Str(<<>>), [MapperType("Sequence") EXCEPT !.element = NumberMapper(sItem)])

PagedMappers ==
    {CompositeOf(<<Property(sX, PageMapper)>>),
     CompositeOf(<<Property(sY, NumberMapper(sY)), Property(sX, PageMapper)>>),
     CompositeOf(<<Property(sX, PageMapper), Property(sY, NumberMapper(sY))>>)}

PagedObjects ==
    {ObjectOf((sX :> x) @@ (sY :> y)) :
        x \in {Undefined} \cup {Arr(q) : q \in SeqsUpTo({Num(1)}, MaxLen)},
        y \in {Undefined, Num(2)}}

PagedResponses ==
    PagedObjects
    \cup {Arr(<<Num(1)>>), Obj(<<>> :> Arr(<<Num(1)>>)), Obj(<<>> :> Num(1)),
          Obj((<<>> :> Arr(<<Num(1)>>)) @@ (sX :> Arr(<<Num(2)>>)))}

-----------------------------------------------------------------------------
(* The serializers and the calls made on each *)

Serializer(registry, xml) == [modelMappers |-> registry, isXML |-> xml]

Plain == Serializer(Undefined, FALSE)

Serializers ==
    {Plain, Serializer(Undefined, TRUE)} \cup {Serializer(r, FALSE) : r \in Registries}

\* The (mapper, object) pairs serialize is called with on a serializer: the
\* polymorphic mappers on every serializer without XML, the XML mappers on the
\* XML one, and the mappers that read neither field on the plain one
SerializeCalls(ser) ==
    (IF ser.modelMappers = Undefined THEN AbsentnessMappers \X AbsentnessValues ELSE {})
    \cup (IF ser = Plain
          THEN (ConstraintMappers \X ConstraintValues)
               \cup (DateMappers \X DateValues)
               \cup (EnumMappers \X EnumValues)
               \cup (DottedMappers \X DottedObjects)
          ELSE {})
    \cup (IF ~ser.isXML THEN PolymorphicMappers \X AnimalObjects ELSE {})
    \cup (IF ser.isXML
          THEN (XmlMappers \X XmlObjects) \cup (XmlElementMappers \X XmlElementObjects)
          ELSE {})
    \cup (IF ser = Plain
          THEN (ByteMappers \X ByteValues) \cup (PagedMappers \X PagedObjects)
          ELSE {})

\* The (mapper, responseBody) pairs deserialize is called with
DeserializeCalls(ser) ==
    (IF ser.modelMappers = Undefined THEN AbsentnessMappers \X AbsentnessValues ELSE {})
    \cup (IF ser = Plain THEN DottedMappers \X DottedResponses ELSE {})
    \cup (IF ~ser.isXML THEN PolymorphicMappers \X AnimalObjects ELSE {})
    \cup (IF ser.isXML THEN XmlMappers \X XmlResponses ELSE {})
    \cup (IF ser.modelMappers = Undefined THEN SequenceMappers \X SequenceResponses ELSE {})
    \cup (IF ser = Plain THEN PagedMappers \X PagedResponses ELSE {})

\* The (mapper, value) pairs validateConstraints is called with
ValidateCalls(ser) ==
    IF ser = Plain
    THEN ConstraintMappers \X (ConstraintValues \cup {Undefined, Null})
    ELSE {}

-----------------------------------------------------------------------------
(* The state machine: a Serializer is constructed, then one of its methods  *)
(* is called; the output of serialize may be handed back to deserialize.    *)

this == Serializer(modelMappers, isXML)

Init ==
    /\ \E ser \in Serializers :
          /\ modelMappers = ser.modelMappers
          /\ isXML = ser.isXML
    /\ pc = "ready"
    /\ argMapper = Undefined
    /\ argObject = Undefined
    /\ retPayload = Undefined
    /\ argResponseBody = Undefined
    /\ retInstance = Undefined

\* serializer.serialize(mapper, object)
Serialize ==
    /\ pc = "ready"
    /\ \E call \in SerializeCalls(this) :
          /\ argMapper' = call[1]
          /\ argObject' = call[2]
          /\ retPayload' = serialize(this, call[1], call[2], Undefined)
    /\ pc' = "serialized"
    /\ UNCHANGED <<modelMappers, isXML, argResponseBody, retInstance>>

\* serializer.deserialize(mapper, responseBody, objectName)
Deserialize ==
    /\ pc = "ready"
    /\ \E call \in DeserializeCalls(this) :
          /\ argMapper' = call[1]
          /\ argResponseBody' = call[2]
          /\ retInstance' = deserialize(this, call[1], call[2], Undefined)
    /\ pc' = "deserialized"
    /\ UNCHANGED <<modelMappers, isXML, argObject, retPayload>>

\* serializer.validateConstraints(mapper, value, objectName)
ValidateConstraints ==
    /\ pc = "ready"
    /\ \E call \in ValidateCalls(this) :
          /\ argMapper' = call[1]
          /\ argObject' = call[2]
          /\ retPayload' = validateConstraints(call[1], call[2], call[1].serializedName)
    /\ pc' = "validated"
    /\ UNCHANGED <<modelMappers, isXML, argResponseBody, retInstance>>

\* serializer.deserialize(mapper, payload): the payload serialize returned
\* goes back through deserialize under the same mapper
DeserializePayload ==
    /\ pc = "serialized"
    /\ ~IsErr(retPayload)
    /\ argResponseBody' = retPayload
    /\ retInstance' = deserialize(this, argMapper, retPayload, Undefined)
    /\ pc' = "roundtrip"
    /\ UNCHANGED <<modelMappers, isXML, argMapper, argObject, retPayload>>

Next == Serialize \/ Deserialize \/ ValidateConstraints \/ DeserializePayload

Spec == Init /\ [][Next]_vars

-----------------------------------------------------------------------------
(* The claims *)

\* A call of serialize has returned or thrown
Serialized == pc \in {"serialized", "roundtrip"}

\* The absentness table, row by row: whether it accepts the absent value v
TableAccepts(required, nullable, v) ==
    IF required = Bool(TRUE)
    THEN nullable = Bool(TRUE) /\ v = Null
    ELSE IF nullable = Bool(FALSE) THEN v = Undefined
    ELSE TRUE

\* C1: with no defaultValue and isConstant unset, serialize of undefined or
\* null throws the absentness Error exactly where the table of required and
\* nullable refuses the value, and returns the very value it was given
\* (null for null, undefined for undefined) where the table accepts it,
\* under every type tag.
C1_AbsentnessTable ==
    (/\ Serialized
     /\ IsAbsent(argObject)
     /\ argMapper.defaultValue = Undefined
     /\ argMapper.isConstant = Undefined)
    => IF TableAccepts(argMapper.required, argMapper.nullable, argObject)
       THEN retPayload = argObject
       ELSE IsErr(retPayload) /\ retPayload.kind = "Absentness"

\* A Sequence mapper, required and nullable, was given null and returned null
C1_Witness ==
    /\ pc = "serialized"
    /\ argMapper.type.name = "Sequence"
    /\ argMapper.required = Bool(TRUE)
    /\ argMapper.nullable = Bool(TRUE)
    /\ argMapper.defaultValue = Undefined
    /\ argMapper.isConstant = Undefined
    /\ argObject = Null
    /\ retPayload = Null

\* Whether the value breaks the named constraint
ConstraintFails(name, c, value) ==
    CASE name = "ExclusiveMaximum" -> ExclusiveMaximumFails(c, value)
      [] name = "ExclusiveMinimum" -> ExclusiveMinimumFails(c, value)
      [] name = "InclusiveMaximum" -> InclusiveMaximumFails(c, value)
      [] name = "InclusiveMinimum" -> InclusiveMinimumFails(c, value)
      [] name = "MaxItems" -> MaxItemsFails(c, value)
      [] name = "MaxLength" -> MaxLengthFails(c, value)
      [] name = "MinItems" -> MinItemsFails(c, value)
      [] name = "MinLength" -> MinLengthFails(c, value)
      [] name = "MultipleOf" -> MultipleOfFails(c, value)
      [] name = "Pattern" -> PatternFails(c, value)
      [] OTHER -> UniqueItemsFails(c, value)

\* The places, in the documented order, of the constraints the value breaks
Violated(c, value) ==
    {i \in 1..Len(ConstraintOrder) : ConstraintFails(ConstraintOrder[i], c, value)}

FirstViolated(c, value) ==
    CHOOSE i \in Violated(c, value) : \A j \in Violated(c, value) : i <= j

\* C2: when a non-absent value breaks two or more constraints of its mapper,
\* validateConstraints, and serialize through it, throws the Error that names
\* the broken constraint that comes first in the order ExclusiveMaximum,
\* ExclusiveMinimum, InclusiveMaximum, InclusiveMinimum, MaxItems, MaxLength,
\* MinItems, MinLength, MultipleOf, Pattern, UniqueItems.
C2_FirstViolatedConstraintReported ==
    (/\ pc \in {"validated", "serialized", "roundtrip"}
     /\ Truthy(argMapper.constraints)
     /\ ~IsAbsent(argObject)
     /\ Cardinality(Violated(argMapper.constraints, argObject)) >= 2)
    => /\ IsErr(retPayload)
       /\ retPayload.kind = "Constraint"
       /\ retPayload.detail =
             ConstraintOrder[FirstViolated(argMapper.constraints, argObject)]

\* serialize threw InclusiveMinimum for a number that breaks both
\* InclusiveMinimum and MultipleOf
C2_Witness ==
    /\ pc = "serialized"
    /\ Truthy(argMapper.constraints)
    /\ argObject = Num(1)
    /\ Violated(argMapper.constraints, argObject) = {4, 9}
    /\ IsErr(retPayload)
    /\ retPayload.detail = "InclusiveMinimum"

\* A Composite mapper that carries its own modelProperties
HasModelProperties(m) ==
    /\ m.t = "mapper"
    /\ m.type.name = "Composite"
    /\ Truthy(m.type.modelProperties)

\* The value an object holds in the field its mapper's discriminator names
\* on the client side
DiscriminatorValue(m, obj) ==
    LET disc == m.type.polymorphicDiscriminator
    IN  GetProp(obj, IF disc.t = "discriminator" THEN disc.clientName.v ELSE disc.v)

\* The index the registry is read at for the discriminator value d
IndexFor(m, d) ==
    IF d = m.type.uberParent THEN d.v ELSE m.type.uberParent.v \o <<".">> \o d.v

\* The mapper the index of the registry holds for d, or the base mapper m
\* when there is no registry, no index or no entry
IndexedMapper(registry, m, d) ==
    IF /\ registry # Undefined
       /\ registry.discriminators # Undefined
       /\ IndexFor(m, d) \in DOMAIN registry.discriminators.v
    THEN registry.discriminators.v[IndexFor(m, d)]
    ELSE m

\* The mapper with its discriminator taken away, so that its own properties
\* are the ones serialized
Monomorphic(m) == [m EXCEPT !.type.polymorphicDiscriminator = Undefined]

\* serialize was called with a mapper that has a discriminator and an object
\* that carries a discriminator value
PolymorphicCase ==
    /\ Serialized
    /\ HasModelProperties(argMapper)
    /\ Truthy(argMapper.type.polymorphicDiscriminator)
    /\ argObject.t = "object"
    /\ ~IsAbsent(DiscriminatorValue(argMapper, argObject))

\* C3: for a mapper with discriminator and uberParent U and an object whose
\* discriminator value is d, serialize reads the registry's index at "U.d"
\* (at "U" when d is U); with an entry there it emits that mapper's
\* properties, and with none, a registry without any index included, it does
\* not fail and emits the base mapper's properties.
C3_SubtypeOrBaseProperties ==
    PolymorphicCase
    => /\ ~IsErr(retPayload)
       /\ retPayload =
             serialize(this,
                       Monomorphic(IndexedMapper(modelMappers, argMapper,
                                                 DiscriminatorValue(argMapper, argObject))),
                       argObject, Undefined)

\* The keys that lead to the place of a property in the payload
PathOf(propertyMapper) == splitSerializeName(ToStringChars(propertyMapper.serializedName))

IsPrefix(p, q) == Len(p) <= Len(q) /\ SubSeq(q, 1, Len(p)) = p

PropsOf(m) == m.type.modelProperties.v

\* A JSON composite mapper whose properties are neither read-only, constant
\* nor required, each under a name with at least one segment, no path a
\* prefix of another's
FlattenCase ==
    /\ Serialized
    /\ ~isXML
    /\ HasModelProperties(argMapper)
    /\ ~Truthy(argMapper.type.polymorphicDiscriminator)
    /\ argObject.t = "object"
    /\ \A i \in 1..Len(PropsOf(argMapper)) :
          LET pm == PropsOf(argMapper)[i].mapper
          IN  /\ ~Truthy(pm.readOnly) /\ ~Truthy(pm.isConstant) /\ ~Truthy(pm.required)
              /\ pm.type.name = "Number"
              /\ Len(PathOf(pm)) >= 1
              /\ \A j \in 1..Len(PropsOf(argMapper)) :
                    j # i => ~IsPrefix(PathOf(pm), PathOf(PropsOf(argMapper)[j].mapper))

\* The object v cut down to the properties of the mapper it holds a value
\* other than undefined for
Restricted(m, v) ==
    Obj([k \in {PropsOf(m)[i].key : i \in 1..Len(PropsOf(m))} \cap {x \in Keys(v) : Get(v, x) # Undefined}
            |-> Get(v, k)])

\* C4: in JSON mode serialize puts every property value that is not absent
\* at the nested place its dotted serializedName spells, for every object,
\* and deserialize of the payload gives the object back, cut down to its
\* properties that are not undefined.
C4_FlattenAndRoundTrip ==
    FlattenCase
    => /\ ~IsErr(retPayload)
       /\ \A i \in 1..Len(PropsOf(argMapper)) :
             LET prop == PropsOf(argMapper)[i]
             IN  ~IsAbsent(GetProp(argObject, prop.key))
                 => GetAt(retPayload, PathOf(prop.mapper)) = GetProp(argObject, prop.key)
       /\ pc = "roundtrip" => retInstance = Restricted(argMapper, argObject)

\* C5: deserialize of serialize of a Date t ms after the epoch, both under a
\* UnixTime mapper, is the Date floor(t / 1000) * 1000 ms after the epoch,
\* for t = 0 and every t below one second too.
C5_UnixTimeRoundTrip ==
    (/\ pc = "roundtrip"
     /\ argMapper.type.name = "UnixTime"
     /\ argObject.t = "date")
    => retInstance = DateOf((argObject.v \div MsPerSecond) * MsPerSecond)

\* C6: under a mapper whose isConstant is true, deserialize returns the
\* mapper's defaultValue for every wire value, an absent one included.
C6_ConstantOnDeserialize ==
    (/\ pc = "deserialized"
     /\ Truthy(argMapper.isConstant))
    => retInstance = argMapper.defaultValue

\* deserialize was called with null or undefined
AbsentResponse == pc = "deserialized" /\ IsAbsent(argResponseBody)

\* C7 as stated: under a mapper without defaultValue and isConstant,
\* deserialize of null or undefined throws exactly where the absentness table
\* of serialize refuses the value.
C7_Original ==
    (/\ AbsentResponse
     /\ argMapper.defaultValue = Undefined
     /\ argMapper.isConstant = Undefined)
    => (IsErr(retInstance)
           <=> ~TableAccepts(argMapper.required, argMapper.nullable, argResponseBody))

\* C7: deserialize consults neither required nor nullable: whatever the two
\* say, it throws nothing for null or undefined and returns the value it was
\* given, or [] for a non-wrapped Sequence in XML mode.
C7_AbsentResponseReturned ==
    AbsentResponse
    => retInstance =
          IF isXML /\ argMapper.type.name = "Sequence" /\ ~Truthy(argMapper.xmlIsWrapped)
          THEN Arr(<<>>)
          ELSE argResponseBody

\* A required mapper that is not nullable was handed null and returned null
C7_Witness ==
    /\ AbsentResponse
    /\ argMapper.required = Bool(TRUE)
    /\ argMapper.nullable = Bool(FALSE)
    /\ argMapper.defaultValue = Undefined
    /\ argMapper.isConstant = Undefined
    /\ argResponseBody = Null
    /\ retInstance = Null

\* The mapper without its read-only properties
WithoutReadOnly(m) ==
    [m EXCEPT !.type.modelProperties =
        ModelProperties(SelectSeq(PropsOf(m), LAMBDA prop : ~Truthy(prop.mapper.readOnly)))]

\* C8: serialize of a composite whose mapper has a read-only property gives
\* the payload it gives under the mapper with that property taken out: the
\* property adds neither key nor enclosing object, under a dotted name too.
C8_ReadOnlyContributesNothing ==
    (/\ Serialized
     /\ HasModelProperties(argMapper)
     /\ argObject.t = "object")
    => retPayload = serialize(this, WithoutReadOnly(argMapper), argObject, Undefined)

\* The response holds no element of the wrapped list: the wrapper is
\* missing, null, the empty text, or an object without the element key
HoldsNoElements(body) ==
    LET wrapper == GetProp(body, sTags)
    IN  \/ wrapper \in {Undefined, Null, Str(<<>>)}
        \/ wrapper.t = "object" /\ sTag \notin Keys(wrapper)

\* The place of the wrapped list among the properties of the mapper
WrappedAt(m) ==
    {i \in 1..Len(PropsOf(m)) :
        /\ PropsOf(m)[i].key = sTags
        /\ PropsOf(m)[i].mapper.type.name = "Sequence"
        /\ Truthy(PropsOf(m)[i].mapper.xmlIsWrapped)}

\* C9: in XML mode, deserialize of a composite with a wrapped Sequence
\* property gives the empty list for that property whenever the response
\* holds no elements for it, be the wrapper missing, without child, the
\* empty text or null.
C9_EmptyWrappedList ==
    (/\ pc = "deserialized"
     /\ isXML
     /\ HasModelProperties(argMapper)
     /\ WrappedAt(argMapper) # {}
     /\ argResponseBody.t = "object"
     /\ HoldsNoElements(argResponseBody))
    => /\ ~IsErr(retInstance)
       /\ GetProp(retInstance, sTags) = Arr(<<>>)

\* The two characters are one letter, in either case
SameLetter(c, d) ==
    c = d \/ {c, d} \in {{"a", "A"}, {"b", "B"}}

EqualIgnoringCase(p, q) ==
    Len(p) = Len(q) /\ \A i \in 1..Len(p) : SameLetter(p[i], q[i])

\* serialize was called with a text under an Enum mapper whose allowedValues
\* are all texts
EnumCase ==
    /\ Serialized
    /\ argMapper.type.name = "Enum"
    /\ argMapper.type.allowedValues.t = "array"
    /\ \A i \in 1..Len(argMapper.type.allowedValues.v) :
          argMapper.type.allowedValues.v[i].t = "string"
    /\ argObject.t = "string"

EnumMatched ==
    \E i \in 1..Len(argMapper.type.allowedValues.v) :
        EqualIgnoringCase(argMapper.type.allowedValues.v[i].v, argObject.v)

\* C10: under an Enum mapper whose allowedValues are texts, serialize
\* accepts a text exactly when it equals one of them ignoring case, returns
\* it in the casing it came in, and throws otherwise.
C10_EnumIgnoresCase ==
    EnumCase
    => IF EnumMatched
       THEN retPayload = argObject
       ELSE IsErr(retPayload) /\ retPayload.kind = "Enum"

\* "ab" was accepted against the allowed value "Ab" and came back as "ab"
C10_Witness ==
    /\ pc = "serialized"
    /\ EnumCase
    /\ argMapper.type.allowedValues.v = <<Str(<<"A", "b">>)>>
    /\ argObject = Str(<<"a", "b">>)
    /\ retPayload = Str(<<"a", "b">>)

\* serialize was called with bytes under a Base64Url mapper
Base64UrlCase ==
    /\ Serialized
    /\ argMapper.type.name = "Base64Url"
    /\ argObject.t = "uint8array"

\* The text without the "=" it ends with
WithoutPadding(text) ==
    LET kept == {i \in 1..Len(text) : text[i] # "="}
    IN  IF kept = {} THEN <<>>
        ELSE SubSeq(text, 1, CHOOSE i \in kept : \A j \in kept : j <= i)

\* The character of the URL alphabet that stands for c
UrlChar(c) == IF c = "+" THEN "-" ELSE IF c = "/" THEN "_" ELSE c

\* C11: Base64Url serialize of any bytes is their base64 text without the
\* trailing "=", with "-" for every "+" and "_" for every "/", so it holds
\* none of "+", "/" and "="; deserialize of that text gives back the bytes
\* when there is at least one.
C11_Base64UrlRoundTrip ==
    Base64UrlCase
    => /\ retPayload.t = "string"
       /\ \A i \in 1..Len(retPayload.v) : retPayload.v[i] \notin {"+", "/", "="}
       /\ LET text == WithoutPadding(encodeByteArray(argObject.v))
          IN  retPayload.v = [i \in 1..Len(text) |-> UrlChar(text[i])]
       /\ (pc = "roundtrip" /\ Len(argObject.v) > 0) => retInstance = Uint8Array(argObject.v)

\* The bytes 251, 255 serialized to "-_8" and came back
C11_Witness ==
    /\ pc = "roundtrip"
    /\ Base64UrlCase
    /\ argObject = Uint8Array(<<251, 255>>)
    /\ retPayload = Str(<<"-", "_", "8">>)
    /\ retInstance = argObject

\* C12: under a Sequence mapper deserialize turns every wire value that is
\* not absent and not a list, the falsy 0, false and "" too, into the list
\* of the one deserialized value, and a list of n values into the list of
\* the n deserialized values.
C12_BareValueBecomesList ==
    (/\ pc = "deserialized"
     /\ argMapper.type.name = "Sequence"
     /\ Truthy(argMapper.type.element)
     /\ ~Truthy(argMapper.isConstant)
     /\ ~IsAbsent(argResponseBody))
    => retInstance =
          IF argResponseBody.t = "array"
          THEN Arr([i \in 1..Len(argResponseBody.v) |->
                      deserialize(this, argMapper.type.element, argResponseBody.v[i], Undefined)])
          ELSE Arr(<<deserialize(this, argMapper.type.element, argResponseBody, Undefined)>>)

\* The object lacks a value for a property that is required, not nullable,
\* not read-only, not constant and without defaultValue
RequiredMissing(m, obj) ==
    \E i \in 1..Len(PropsOf(m)) :
        LET pm == PropsOf(m)[i].mapper
        IN  /\ ~Truthy(pm.readOnly)
            /\ pm.required = Bool(TRUE)
            /\ ~Truthy(pm.nullable)
            /\ pm.defaultValue = Undefined
            /\ ~Truthy(pm.isConstant)
            /\ IsAbsent(GetProp(obj, PropsOf(m)[i].key))

\* C13: in JSON mode serialize of a composite throws the absentness Error
\* whenever the object holds null or undefined for a required property that
\* is not nullable, under a plain or a dotted serializedName and in any
\* order of the properties.
C13_RequiredPropertyEnforced ==
    (/\ Serialized
     /\ ~isXML
     /\ HasModelProperties(argMapper)
     /\ ~Truthy(argMapper.type.polymorphicDiscriminator)
     /\ argObject.t = "object"
     /\ RequiredMissing(argMapper, argObject))
    => IsErr(retPayload) /\ retPayload.kind = "Absentness"

\* serialize of a composite returned a payload in XML mode
XmlWriteCase ==
    /\ Serialized
    /\ isXML
    /\ HasModelProperties(argMapper)
    /\ argObject.t = "object"
    /\ ~IsErr(retPayload)

\* The key the code writes a property under
WireKey(pm) ==
    IF Truthy(pm.xmlIsWrapped) THEN pm.xmlName.v
    ELSE IF Truthy(pm.xmlElementName) THEN pm.xmlElementName.v
    ELSE pm.xmlName.v

\* The key C14 states
StatedWireKey(pm) ==
    IF Truthy(pm.xmlIsWrapped) THEN pm.xmlElementName.v
    ELSE IF Truthy(pm.xmlElementName) THEN pm.xmlElementName.v
    ELSE pm.xmlName.v

\* What the payload holds for the property i: the serialized value, inside
\* an object keyed by xmlElementName when the property is wrapped
WrittenValue(i) ==
    LET prop == PropsOf(argMapper)[i]
        inner == serialize(this, prop.mapper, GetProp(argObject, prop.key), Undefined)
    IN  IF Truthy(prop.mapper.xmlIsWrapped)
        THEN Obj(prop.mapper.xmlElementName.v :> inner)
        ELSE inner

\* The element properties the object holds a value for
ElementsWritten ==
    {i \in 1..Len(PropsOf(argMapper)) :
        /\ ~Truthy(PropsOf(argMapper)[i].mapper.xmlIsAttribute)
        /\ ~Truthy(PropsOf(argMapper)[i].mapper.readOnly)
        /\ ~IsAbsent(GetProp(argObject, PropsOf(argMapper)[i].key))}

\* C14 as stated: in XML mode a property is written under xmlElementName
\* when it is wrapped, and otherwise under xmlElementName if set, else
\* xmlName; a wrapped list is { wireKey: { xmlElementName: list } }.
C14_Original ==
    XmlWriteCase
    => \A i \in ElementsWritten :
          GetProp(retPayload, StatedWireKey(PropsOf(argMapper)[i].mapper)) = WrittenValue(i)

\* C14: in XML mode a property is written under xmlName when it is wrapped,
\* and otherwise under xmlElementName if set, else xmlName; a wrapped list
\* is { xmlName: { xmlElementName: list } }.
C14_WrappedUnderXmlName ==
    XmlWriteCase
    => \A i \in ElementsWritten :
          GetProp(retPayload, WireKey(PropsOf(argMapper)[i].mapper)) = WrittenValue(i)

\* A wrapped list of one tag was written as { Tags: { Tag: ["a"] } }
C14_Witness ==
    /\ XmlWriteCase
    /\ argMapper = CompositeOf(<<Property(sTags, TagsMapper(Bool(TRUE)))>>)
    /\ GetProp(argObject, sTags) = Arr(<<Str(<<"a">>)>>)
    /\ retPayload = Obj(sTags :> Obj(sTag :> Arr(<<Str(<<"a">>)>>)))

\* Whether the mapper leads to a modelProperties mapping that is not empty,
\* its own or that of the mapper the registry holds for its className
Resolves(registry, m) ==
    IF m.type.modelProperties # Undefined
    THEN Len(m.type.modelProperties.v) > 0
    ELSE /\ m.type.className # Undefined
         /\ registry # Undefined
         /\ m.type.className.v \in DOMAIN registry.v
         /\ registry.v[m.type.className.v].type.modelProperties # Undefined
         /\ Len(registry.v[m.type.className.v].type.modelProperties.v) > 0

\* A Composite mapper without discriminator
PlainComposite(m) ==
    /\ m.t = "mapper"
    /\ m.type.name = "Composite"
    /\ ~Truthy(m.type.polymorphicDiscriminator)

\* C15: serialize and deserialize of a non-absent value under a Composite
\* mapper throw a configuration Error whenever the mapper does not resolve
\* to a modelProperties mapping that is not empty: none and no className, a
\* className the registry lacks or no registry, a registered mapper without
\* modelProperties, or the empty mapping.
C15_UnresolvedCompositeFails ==
    /\ (/\ Serialized
        /\ PlainComposite(argMapper)
        /\ ~IsAbsent(argObject)
        /\ ~Resolves(modelMappers, argMapper))
       => IsErr(retPayload) /\ retPayload.kind = "Configuration"
    /\ (/\ pc = "deserialized"
        /\ PlainComposite(argMapper)
        /\ ~IsAbsent(argResponseBody)
        /\ ~Resolves(modelMappers, argMapper))
       => IsErr(retInstance) /\ retInstance.kind = "Configuration"

\* The field the discriminator value is read from in the given mode
FieldRead(m, mode) ==
    LET disc == m.type.polymorphicDiscriminator
    IN  IF disc.t = "discriminator"
        THEN IF mode = "serialize" THEN disc.clientName.v ELSE disc.serializedName.v
        ELSE disc.v

\* The registry can be read at an index: there is none, or it has one
IndexReadable ==
    modelMappers = Undefined \/ modelMappers.discriminators # Undefined

\* A call with a mapper that has a discriminator
Polymorphic(m) == HasModelProperties(m) /\ Truthy(m.type.polymorphicDiscriminator)

\* C16: under a mapper with a discriminator, serialize reads the
\* discriminator value from the field clientName names and deserialize from
\* the field serializedName names (the string form names one field for
\* both); when the value holds null or undefined there, the call throws the
\* discriminator Error and marshals nothing; when it holds a value, that
\* value picks the mapper.
C16_DiscriminatorField ==
    /\ (Serialized /\ Polymorphic(argMapper) /\ argObject.t = "object")
       => LET d == GetProp(argObject, FieldRead(argMapper, "serialize"))
          IN  IF IsAbsent(d)
              THEN IsErr(retPayload) /\ retPayload.kind = "Discriminator"
              ELSE IndexReadable
                   => retPayload =
                         serialize(this, Monomorphic(IndexedMapper(modelMappers, argMapper, d)),
                                   argObject, Undefined)
    /\ (pc = "deserialized" /\ Polymorphic(argMapper) /\ argResponseBody.t = "object")
       => LET d == GetProp(argResponseBody, FieldRead(argMapper, "deserialize"))
          IN  IF IsAbsent(d)
              THEN IsErr(retInstance) /\ retInstance.kind = "Discriminator"
              ELSE IndexReadable
                   => retInstance =
                         deserialize(this, Monomorphic(IndexedMapper(modelMappers, argMapper, d)),
                                     argResponseBody, Undefined)

\* deserialize threw for a response that holds the discriminator under
\* clientName only
C16_Witness ==
    /\ pc = "deserialized"
    /\ Polymorphic(argMapper)
    /\ argMapper.type.polymorphicDiscriminator.t = "discriminator"
    /\ argResponseBody.t = "object"
    /\ GetProp(argResponseBody, sKind) = Str(sDog)
    /\ GetProp(argResponseBody, sType) = Undefined
    /\ IsErr(retInstance)
    /\ retInstance.kind = "Discriminator"

\* The last property of the mapper
LastProperty(m) == PropsOf(m)[Len(PropsOf(m))]

\* A JSON composite whose last property, and no other, has the
\* serializedName ""
FlattenIntoSelf(m) ==
    /\ ~isXML
    /\ PlainComposite(m)
    /\ HasModelProperties(m)
    /\ Len(PropsOf(m)) >= 1
    /\ LastProperty(m).mapper.serializedName = Str(<<>>)
    /\ \A i \in 1..(Len(PropsOf(m)) - 1) : PropsOf(m)[i].mapper.serializedName # Str(<<>>)

\* serialize was given a value for the property named "" and returned
SelfSerialized ==
    /\ Serialized
    /\ FlattenIntoSelf(argMapper)
    /\ argObject.t = "object"
    /\ ~Truthy(LastProperty(argMapper).mapper.readOnly)
    /\ ~IsAbsent(GetProp(argObject, LastProperty(argMapper).key))
    /\ ~IsErr(retPayload)

SelfDeserialized ==
    /\ pc = "deserialized"
    /\ FlattenIntoSelf(argMapper)
    /\ ~IsAbsent(argResponseBody)

\* C17 as stated: for a property whose serializedName is "", deserialize
\* returns the property's mapper applied to the whole wire value, and
\* serialize emits the property's serialized value in place of the payload.
C17_Original ==
    /\ SelfDeserialized
       => retInstance =
             deserialize(this, LastProperty(argMapper).mapper, argResponseBody, Undefined)
    /\ SelfSerialized
       => retPayload =
             serialize(this, LastProperty(argMapper).mapper,
                       GetProp(argObject, LastProperty(argMapper).key), Undefined)

\* C17: in JSON mode, for the property named "" that comes last in
\* modelProperties under the key k: when the wire value holds a list under
\* k, deserialize returns the property's mapper applied to that list in
\* place of the instance; otherwise it reads the property from the key "" of
\* the wire value and sets it under k, or leaves k unset when there is
\* nothing there.  serialize writes the property's serialized value under
\* the key "" of the payload.
C17_FlattenIntoSelf ==
    /\ SelfDeserialized
       => LET prop == LastProperty(argMapper)
              listed == GetProp(argResponseBody, prop.key)
              unnamed == GetProp(argResponseBody, <<>>)
          IN  IF listed.t = "array"
              THEN retInstance = deserialize(this, prop.mapper, listed, Undefined)
              ELSE /\ retInstance.t = "object"
                   /\ IF unnamed # Undefined
                      THEN GetProp(retInstance, prop.key)
                              = deserialize(this, prop.mapper, unnamed, Undefined)
                      ELSE prop.key \notin Keys(retInstance)
    /\ SelfSerialized
       => GetProp(retPayload, <<>>) =
             serialize(this, LastProperty(argMapper).mapper,
                       GetProp(argObject, LastProperty(argMapper).key), Undefined)

\* The list under the key of the paged property came back as the instance
C17_Witness ==
    /\ pc = "deserialized"
    /\ argMapper = CompositeOf(<<Property(sX, PageMapper)>>)
    /\ argResponseBody = Obj(sX :> Arr(<<Num(1)>>))
    /\ retInstance = Arr(<<Num(1)>>)

\* The attribute properties the object holds a value for
AttributesWritten ==
    {i \in 1..Len(PropsOf(argMapper)) :
        /\ Truthy(PropsOf(argMapper)[i].mapper.xmlIsAttribute)
        /\ ~Truthy(PropsOf(argMapper)[i].mapper.readOnly)
        /\ ~IsAbsent(GetProp(argObject, PropsOf(argMapper)[i].key))}

\* C18: in XML mode serialize writes the value of an attribute property
\* under a key of the "$" object of the payload and deserialize of the
\* payload reads it back from there, also when the property has both an
\* xmlName and a different xmlElementName.
C18_AttributeRoundTrip ==
    (/\ pc = "roundtrip"
     /\ isXML
     /\ HasModelProperties(argMapper)
     /\ argObject.t = "object")
    => \A i \in AttributesWritten :
          LET prop == PropsOf(argMapper)[i]
              attrs == GetProp(retPayload, DollarKey)
          IN  /\ attrs.t = "object"
              /\ \E k \in Keys(attrs) : Get(attrs, k) = GetProp(argObject, prop.key)
              /\ GetProp(retInstance, prop.key) = GetProp(argObject, prop.key)

====
